---- MODULE Spec2Model ----
(***************************************************************************)
(* The request handler of the LLM proxy worker (src/unnamed/part_002).     *)
(*                                                                         *)
(* Strings are sequences of tokens: a token is a non-empty piece of text   *)
(* that contains no whitespace, comma, colon or slash, except the tokens   *)
(* " ", "," and ":" themselves.  The empty string is << >>.  No token of   *)
(* the alphabet is a concatenation of other tokens, so two token sequences *)
(* are equal exactly when the strings they stand for are equal.            *)
(***************************************************************************)
EXTENDS Integers, Sequences, FiniteSets, TLC

\* Number of requests one behaviour hands to the worker.
MaxRequests == 2

\* JavaScript's undefined and null, kept apart from every string.
Undefined == <<"#undefined">>
Null == <<"#null">>

\* JavaScript truthiness of a string-or-missing value (the || and ? of the source).
Truthy(v) == v # Undefined /\ v # Null /\ v # << >>

\* Template-literal rendering `${v}`.
TemplateString(v) == IF v = Undefined THEN <<"undefined">> ELSE IF v = Null THEN <<"null">> ELSE v

----------------------------------------------------------------------------
\* Headers objects: functions from lower-cased header names to values.

EmptyHeaders == [n \in {} |-> << >>]

HeadersGet(headers, name) == IF name \in DOMAIN headers THEN headers[name] ELSE Null

HeadersHas(headers, name) == name \in DOMAIN headers

HeadersSet(headers, name, value) ==
  [n \in (DOMAIN headers) \cup {name} |-> IF n = name THEN value ELSE headers[n]]

HeadersDelete(headers, name) == [n \in (DOMAIN headers) \ {name} |-> headers[n]]

----------------------------------------------------------------------------
\* String functions of the runtime, on token sequences.

IsSpace(t) == t = " "

RECURSIVE TrimStart(_)
TrimStart(s) == IF s # << >> /\ IsSpace(Head(s)) THEN TrimStart(Tail(s)) ELSE s

RECURSIVE TrimEnd(_)
TrimEnd(s) ==
  IF s # << >> /\ IsSpace(s[Len(s)]) THEN TrimEnd(SubSeq(s, 1, Len(s) - 1)) ELSE s

\* String.prototype.trim
Trim(s) == TrimEnd(TrimStart(s))

\* String.prototype.split(sep) for a one-token separator: never an empty list.
RECURSIVE SplitFrom(_, _, _)
SplitFrom(s, sep, acc) ==
  IF s = << >> THEN <<acc>>
  ELSE IF Head(s) = sep THEN <<acc>> \o SplitFrom(Tail(s), sep, << >>)
  ELSE SplitFrom(Tail(s), sep, Append(acc, Head(s)))

Split(s, sep) == SplitFrom(s, sep, << >>)

\* Array.prototype.filter(key => key.length > 0) and filter(Boolean) on strings.
FilterNonEmpty(list) == SelectSeq(list, LAMBDA x : x # << >>)

MapTrim(list) == [i \in 1..Len(list) |-> Trim(list[i])]

\* Array.prototype.includes
Includes(list, x) == \E i \in 1..Len(list) : list[i] = x

\* String.prototype.startsWith
StartsWith(s, prefix) == Len(s) >= Len(prefix) /\ SubSeq(s, 1, Len(prefix)) = prefix

\* s.replace(BEARER_PREFIX, ''): removes a leading "Bearer" followed by one or more
\* whitespace characters, and leaves every other string as it is.
BEARER_PREFIX(s) ==
  IF Len(s) >= 2 /\ s[1] = "Bearer" /\ IsSpace(s[2]) THEN TrimStart(Tail(s)) ELSE s

----------------------------------------------------------------------------
\* URL objects.  pathname is the list of the segments that follow each "/" of the
\* path, so "/" is << << >> >> and "/a/b/" is << <<"a">>, <<"b">>, << >> >>.

DefaultPort(protocol) == IF protocol = "https:" THEN "443" ELSE "80"

\* new URL(s) for s = scheme "://" host [":" port], the only URL strings the
\* configuration holds; every other string (undefined included) throws a TypeError.
URLParses(s) ==
  /\ s # Undefined /\ s # Null
  /\ Len(s) \in {3, 5}
  /\ s[1] \in {"http", "https"}
  /\ s[2] = "://"
  /\ s[3] \notin {" ", ",", ":", "://", "/"}
  /\ Len(s) = 5 => s[4] = ":" /\ s[5] \in {"80", "443", "8080", "8787"}

URLParse(s) ==
  LET protocol == IF s[1] = "https" THEN "https:" ELSE "http:"
      port == IF Len(s) = 5 /\ s[5] # DefaultPort(protocol) THEN s[5] ELSE ""
  IN [protocol |-> protocol, hostname |-> s[3], port |-> port,
      pathname |-> << << >> >>, search |-> ""]

\* The protocol setter: the port is dropped only when it is the new scheme's default.
SetProtocol(url, protocol) ==
  [url EXCEPT !.protocol = protocol,
              !.port = IF url.port = DefaultPort(protocol) THEN "" ELSE url.port]

\* The hostname setter leaves the port alone.
SetHostname(url, hostname) == [url EXCEPT !.hostname = hostname]

\* url.pathname.split('/'): the empty string before the first "/" and the segments.
PathnameSplit(pathname) == << << >> >> \o pathname

\* The pathname setter given "/" + list.join("/") with prefix segments before it.
PathnameOf(prefix, list) == prefix \o (IF list = << >> THEN << << >> >> ELSE list)

\* Array.prototype.slice(n)
Slice(list, n) == IF Len(list) <= n THEN << >> ELSE SubSeq(list, n + 1, Len(list))

\* url.pathname.includes("/" + word): some segment starts with word.
PathnameIncludes(pathname, word) ==
  \E i \in 1..Len(pathname) : StartsWith(pathname[i], <<word>>)

\* url.pathname.includes("/" + first + "/" + second)
PathnameIncludes2(pathname, first, second) ==
  \E i \in 1..(Len(pathname) - 1) :
    pathname[i] = <<first>> /\ StartsWith(pathname[i + 1], <<second>>)

\* url.origin
Origin(url) == [protocol |-> url.protocol, hostname |-> url.hostname, port |-> url.port]

----------------------------------------------------------------------------
\* Header lists of the source.

\* Mutant: "via" is passed through.
RELEVANT_HEADERS_WithVia ==
  <<"content-type", "anthropic-version", "anthropic-beta", "openai-version",
    "openai-organization", "openai-beta", "user-agent", "x-goog-user-project", "via">>

RELEVANT_HEADERS ==
  <<"content-type", "anthropic-version", "anthropic-beta", "openai-version",
    "openai-organization", "openai-beta", "user-agent", "x-goog-user-project">>

DEFAULT_MASK_HEADERS ==
  {"x-forwarded-for", "x-real-ip", "x-forwarded-proto", "x-forwarded-host",
   "cf-connecting-ip", "cf-ipcountry", "cf-ray", "cf-visitor", "x-forwarded-server",
   "x-forwarded-by", "via", "x-cluster-client-ip", "x-host",
   "x-original-forwarded-for", "x-original-remote-addr", "x-original-remote-host",
   "x-original-uri", "x-remote-addr", "x-remote-host", "x-remote-ip", "x-remote-port",
   "x-request-uri", "x-scheme", "x-server-name", "x-server-port", "x-server-protocol",
   "x-server-software", "x-ssl-client-cert", "x-ssl-client-dn", "x-ssl-client-verify",
   "x-ssl-cipher", "x-ssl-protocol", "x-ssl-session-id", "x-ssl-session-reused",
   "x-ssl-trusted-ca", "x-ssl-verify", "x-ssl-verify-result"}

\* Header names are case-insensitive: the Headers object keeps them lower-cased.
LowerName(name) ==
  CASE name = "Authorization" -> "authorization"
    [] name = "X-API-Key" -> "x-api-key"
    [] name = "X-Target-URL" -> "x-target-url"
    [] name = "Content-Type" -> "content-type"
    [] name = "Access-Control-Allow-Origin" -> "access-control-allow-origin"
    [] name = "Access-Control-Allow-Methods" -> "access-control-allow-methods"
    [] name = "Access-Control-Allow-Headers" -> "access-control-allow-headers"
    [] name = "Access-Control-Max-Age" -> "access-control-max-age"
    [] OTHER -> name

----------------------------------------------------------------------------
\* Provider descriptors (ApiConfig) and the table of getApiConfig.

ProviderMaskHeaders == {"x-forwarded-for", "x-real-ip", "cf-connecting-ip", "cf-ipcountry"}

\* maskHeaders of a value that has no such property.
UndefinedList == {"#undefined"}

ApiConfig(baseUrl, apiKeyHeader, defaultVersion, transform) ==
  [baseUrl |-> baseUrl, apiKeyHeader |-> apiKeyHeader, defaultVersion |-> defaultVersion,
   transformRequest |-> transform, transformResponse |-> transform,
   maskHeaders |-> ProviderMaskHeaders]

\* getApiConfig's "no such provider" result.
NullConfig ==
  [baseUrl |-> Null, apiKeyHeader |-> "#null", defaultVersion |-> Null,
   transformRequest |-> FALSE, transformResponse |-> FALSE, maskHeaders |-> UndefinedList]

\* What configs[provider] yields for a name the object literal inherits from
\* Object.prototype: a truthy value with none of the ApiConfig properties.
InheritedProperty ==
  [baseUrl |-> Undefined, apiKeyHeader |-> "#undefined", defaultVersion |-> Undefined,
   transformRequest |-> FALSE, transformResponse |-> FALSE, maskHeaders |-> UndefinedList]

ObjectPrototypeKeys ==
  {<<"constructor">>, <<"toString">>, <<"toLocaleString">>, <<"valueOf">>,
   <<"hasOwnProperty">>, <<"isPrototypeOf">>, <<"propertyIsEnumerable">>,
   <<"__proto__">>, <<"__defineGetter__">>, <<"__defineSetter__">>,
   <<"__lookupGetter__">>, <<"__lookupSetter__">>}

configs ==
  (<<"anthropic">> :> ApiConfig(<<"https", "://", "api.anthropic.com">>, "x-api-key", <<"2023-06-01">>, FALSE)
   @@ <<"openai">> :> ApiConfig(<<"https", "://", "api.openai.com">>, "Authorization", <<"2024-01-01">>, FALSE)
   @@ <<"gemini">> :> ApiConfig(<<"https", "://", "generativelanguage.googleapis.com">>, "x-goog-api-key", <<"2024-01-01">>, FALSE)
   @@ <<"groq">> :> ApiConfig(<<"https", "://", "api.groq.com">>, "Authorization", <<"2024-01-01">>, FALSE)
   @@ <<"vertexai">> :> ApiConfig(<<"https", "://", "us-central1-aiplatform.googleapis.com">>, "Authorization", <<"2024-01-01">>, TRUE)
   @@ <<"openrouter">> :> ApiConfig(<<"https", "://", "openrouter.ai">>, "Authorization", Undefined, FALSE))

SupportedProviders == DOMAIN configs

\* configs[provider] || null
ConfigsLookup(provider) ==
  IF provider \in DOMAIN configs THEN configs[provider]
  ELSE IF provider \in ObjectPrototypeKeys THEN InheritedProperty
  ELSE NullConfig

\* getApiConfig: the descriptor returned, and API_CONFIG_CACHE after the call.
getApiConfig(cache, provider) ==
  IF provider \in DOMAIN cache THEN [value |-> cache[provider], cache |-> cache]
  ELSE LET config == ConfigsLookup(provider)
       IN [value |-> config,
           cache |-> IF config # NullConfig
                     THEN [p \in (DOMAIN cache) \cup {provider} |->
                             IF p = provider THEN config ELSE cache[p]]
                     ELSE cache]

----------------------------------------------------------------------------
\* The whitelist resolver.

\* Mutant: the entries are not trimmed.
ParseAllowedKeys_NoTrim(value) ==
  IF Truthy(value) THEN FilterNonEmpty(Split(value, ",")) ELSE << >>

\* env.X ? env.X.split(',').map(key => key.trim()).filter(key => key.length > 0) : []
ParseAllowedKeys(value) ==
  IF Truthy(value) THEN FilterNonEmpty(MapTrim(Split(value, ","))) ELSE << >>

\* Mutant: groq is checked against the OpenAI whitelist.
WhitelistString_GroqSharesOpenai(provider, env) ==
  CASE provider = <<"anthropic">> -> env.ALLOWED_ANTHROPIC_KEYS
    [] provider = <<"openai">> -> env.ALLOWED_OPENAI_KEYS
    [] provider = <<"gemini">> -> env.ALLOWED_GOOGLE_KEYS
    [] provider = <<"groq">> -> env.ALLOWED_OPENAI_KEYS
    [] provider = <<"vertexai">> -> env.ALLOWED_GOOGLE_KEYS
    [] provider = <<"openrouter">> -> env.ALLOWED_OPENROUTER_KEYS
    [] OTHER -> Undefined

WhitelistString(provider, env) ==
  CASE provider = <<"anthropic">> -> env.ALLOWED_ANTHROPIC_KEYS
    [] provider = <<"openai">> -> env.ALLOWED_OPENAI_KEYS
    [] provider = <<"gemini">> -> env.ALLOWED_GOOGLE_KEYS
    [] provider = <<"groq">> -> env.ALLOWED_GROQ_KEYS
    [] provider = <<"vertexai">> -> env.ALLOWED_GOOGLE_KEYS
    [] provider = <<"openrouter">> -> env.ALLOWED_OPENROUTER_KEYS
    [] OTHER -> Undefined

\* Mutant: the cache key leaves out the provider.
AllowedKeysCacheKey_NoProvider(provider, env) ==
  TemplateString(env.ALLOWED_ANTHROPIC_KEYS)
  \o <<":">> \o TemplateString(env.ALLOWED_OPENAI_KEYS)
  \o <<":">> \o TemplateString(env.ALLOWED_GOOGLE_KEYS)
  \o <<":">> \o TemplateString(env.ALLOWED_GROQ_KEYS)
  \o <<":">> \o TemplateString(env.ALLOWED_OPENROUTER_KEYS)

AllowedKeysCacheKey(provider, env) ==
  provider \o <<":">> \o TemplateString(env.ALLOWED_ANTHROPIC_KEYS)
           \o <<":">> \o TemplateString(env.ALLOWED_OPENAI_KEYS)
           \o <<":">> \o TemplateString(env.ALLOWED_GOOGLE_KEYS)
           \o <<":">> \o TemplateString(env.ALLOWED_GROQ_KEYS)
           \o <<":">> \o TemplateString(env.ALLOWED_OPENROUTER_KEYS)

\* getAllowedKeysForProvider: the list returned, and ALLOWED_KEYS_CACHE after the call.
getAllowedKeysForProvider(cache, provider, env) ==
  LET cacheKey == AllowedKeysCacheKey(provider, env)
  IN IF cacheKey \in DOMAIN cache THEN [value |-> cache[cacheKey], cache |-> cache]
     ELSE LET keys == ParseAllowedKeys(WhitelistString(provider, env))
          IN [value |-> keys,
              cache |-> [k \in (DOMAIN cache) \cup {cacheKey} |->
                           IF k = cacheKey THEN keys ELSE cache[k]]]

----------------------------------------------------------------------------
\* Responses and exceptions.

\* A thrown value: every throw site of the handler and the runtime's fetch raise
\* instances of Error.
Error(name, message) ==
  [isError |-> TRUE, name |-> name, message |-> message, stack |-> "stack"]

NoError == [isError |-> FALSE, name |-> "#none", message |-> "#none", stack |-> "#none"]

NoResponse == [status |-> 0]

\* new Response(JSON.stringify(body), {status, headers: {Content-Type, Access-Control-Allow-Origin}})
JsonResponse(status, json) ==
  [status |-> status, statusText |-> "",
   headers |-> (LowerName("Content-Type") :> <<"application/json">>
                @@ LowerName("Access-Control-Allow-Origin") :> <<"*">>),
   body |-> [kind |-> "json", json |-> json]]

CorsAllowMethods == <<"GET, POST, PUT, DELETE, OPTIONS">>

CorsAllowHeaders ==
  <<"Content-Type, Authorization, X-API-Key, anthropic-version, openai-version, x-goog-api-key">>

\* The CORS preflight answer.
PreflightResponse ==
  [status |-> 200, statusText |-> "",
   headers |-> (LowerName("Access-Control-Allow-Origin") :> <<"*">>
                @@ LowerName("Access-Control-Allow-Methods") :> CorsAllowMethods
                @@ LowerName("Access-Control-Allow-Headers") :> CorsAllowHeaders
                @@ LowerName("Access-Control-Max-Age") :> <<"86400">>),
   body |-> [kind |-> "null"]]

\* Mutant: a missing credential is answered as a bad request.
ApiKeyRequiredResponse_BadRequest ==
  JsonResponse(400,
    ("error" :> "Invalid API endpoint"
     @@ "message" :> "Please provide an API key in the X-API-Key header or Authorization header"))

ApiKeyRequiredResponse ==
  JsonResponse(401,
    ("error" :> "API key is required"
     @@ "message" :> "Please provide an API key in the X-API-Key header or Authorization header"))

InvalidEndpointResponse ==
  JsonResponse(400,
    ("error" :> "Invalid API endpoint"
     @@ "message" :> "Please specify a valid API endpoint (e.g., /anthropic/v1/messages, /openai/v1/chat/completions)"))

\* The message names the provider asked for and the supported set.
UnsupportedProviderResponse(apiProvider) ==
  JsonResponse(400,
    ("error" :> "Unsupported API provider"
     @@ "message" :> (<<"API provider '">> \o apiProvider
                      \o <<"' is not supported. Supported providers: anthropic, openai, gemini, groq, vertexai, openrouter">>)))

UnauthorizedResponse ==
  JsonResponse(403,
    ("error" :> "Unauthorized" @@ "message" :> "Invalid API key provided for this provider"))

\* The catch block of fetch; JSON.stringify leaves out a key whose value is undefined.
InternalErrorResponse(request, error) ==
  JsonResponse(500,
    ("error" :> "Internal server error"
     @@ "message" :> (IF error.isError THEN error.message ELSE "Unknown error")
     @@ "url" :> request.url
     @@ "method" :> request.method)
    @@ (IF error.isError THEN ("details" :> error.stack) ELSE [k \in {} |-> ""]))

TranslationApiKeyRequiredResponse ==
  JsonResponse(401,
    ("error" :> "API key is required"
     @@ "message" :> "Please provide a Gemini API key in the X-API-Key header or Authorization header"))

TranslationUnauthorizedResponse ==
  JsonResponse(403,
    ("error" :> "Unauthorized" @@ "message" :> "Invalid Gemini API key provided"))

----------------------------------------------------------------------------
\* The synchronous steps of fetch, in source order.

\* request.headers.get('X-API-Key') || request.headers.get('x-api-key')
\*   || request.headers.get('Authorization')?.replace(BEARER_PREFIX, '')
ClientApiKey(request) ==
  LET first == HeadersGet(request.headers, LowerName("X-API-Key"))
      second == HeadersGet(request.headers, "x-api-key")
      authorization == HeadersGet(request.headers, LowerName("Authorization"))
  IN IF Truthy(first) THEN first
     ELSE IF Truthy(second) THEN second
     ELSE IF authorization = Null THEN Undefined
     ELSE BEARER_PREFIX(authorization)

\* url.pathname.split('/').filter(Boolean)
UrlPathParts(url) == FilterNonEmpty(PathnameSplit(url.pathname))

\* url.pathname.startsWith('/claude-gemini/v1/messages')
IsTranslationPath(url) ==
  /\ Len(url.pathname) >= 3
  /\ url.pathname[1] = <<"claude-gemini">>
  /\ url.pathname[2] = <<"v1">>
  /\ StartsWith(url.pathname[3], <<"messages">>)

\* Mutant: openrouter paths are remapped like those of the other providers.
TargetUrl_NoOpenrouterRule(request, apiProvider, baseUrl, urlPathParts) ==
  LET withHost == SetHostname(request.url, baseUrl.hostname)
      withProtocol == SetProtocol(withHost, baseUrl.protocol)
  IN [withProtocol EXCEPT !.pathname = PathnameOf(<< >>, Slice(urlPathParts, 1))]

\* The target URL before any request transform: scheme and host of the base URL
\* written over a copy of the inbound URL, then the provider's path rule.
TargetUrl(request, apiProvider, baseUrl, urlPathParts) ==
  LET withHost == SetHostname(request.url, baseUrl.hostname)
      withProtocol == SetProtocol(withHost, baseUrl.protocol)
  IN IF apiProvider = <<"openrouter">>
     THEN [withProtocol EXCEPT
             !.pathname = PathnameOf(<< <<"api">>, <<"v1">> >>, Slice(urlPathParts, 2))]
     ELSE [withProtocol EXCEPT !.pathname = PathnameOf(<< >>, Slice(urlPathParts, 1))]

\* The credential header of the forwarded request.
CredentialHeader(apiConfig, clientApiKey) ==
  IF apiConfig.apiKeyHeader = "Authorization"
  THEN HeadersSet(EmptyHeaders, LowerName("Authorization"), <<"Bearer", " ">> \o clientApiKey)
  ELSE HeadersSet(EmptyHeaders, LowerName(apiConfig.apiKeyHeader), clientApiKey)

\* Mutant: every inbound header that is not yet set is copied.
CopyRelevantHeaders_All(headers, request, names) ==
  [n \in (DOMAIN headers) \cup (DOMAIN request.headers) |->
     IF n \in DOMAIN headers THEN headers[n] ELSE request.headers[n]]

\* for (const headerName of RELEVANT_HEADERS) { if (value) headers.set(headerName, value) }
RECURSIVE CopyRelevantHeaders(_, _, _)
CopyRelevantHeaders(headers, request, names) ==
  IF names = << >> THEN headers
  ELSE LET value == HeadersGet(request.headers, Head(names))
       IN CopyRelevantHeaders(
            IF Truthy(value) THEN HeadersSet(headers, Head(names), value) ELSE headers,
            request, Tail(names))

\* Set default version if not provided.
DefaultVersion(headers, apiProvider, apiConfig) ==
  IF /\ Truthy(apiConfig.defaultVersion)
     /\ ~HeadersHas(headers, "anthropic-version")
     /\ ~HeadersHas(headers, "openai-version")
  THEN IF apiProvider = <<"anthropic">>
       THEN HeadersSet(headers, "anthropic-version", apiConfig.defaultVersion)
       ELSE IF apiProvider = <<"openai">>
       THEN HeadersSet(headers, "openai-version", apiConfig.defaultVersion)
       ELSE headers
  ELSE headers

\* Mutant: the fixed agent string is set whatever the caller sent.
DefaultUserAgent_Always(headers) == HeadersSet(headers, "user-agent", <<"Claude-Proxy/1.0">>)

\* Add user agent if not present.
DefaultUserAgent(headers) ==
  IF ~HeadersHas(headers, "user-agent")
  THEN HeadersSet(headers, "user-agent", <<"Claude-Proxy/1.0">>)
  ELSE headers

\* maskClientInfo: delete every name of the provider's list, or of the default list
\* when the provider has none.
maskClientInfo(headers, maskHeaders) ==
  LET headersToMask == IF maskHeaders # UndefinedList THEN maskHeaders ELSE DEFAULT_MASK_HEADERS
  IN [n \in (DOMAIN headers) \ headersToMask |-> headers[n]]

\* Mutant: an inbound Authorization header is passed on when the provider's
\* credential header is another one.
TargetHeaders_KeepAuthorization(request, apiProvider, apiConfig, clientApiKey) ==
  LET headers == maskClientInfo(
                   DefaultUserAgent(
                     DefaultVersion(
                       CopyRelevantHeaders(CredentialHeader(apiConfig, clientApiKey), request,
                                           RELEVANT_HEADERS),
                       apiProvider, apiConfig)),
                   apiConfig.maskHeaders)
  IN IF HeadersHas(request.headers, "authorization") /\ ~HeadersHas(headers, "authorization")
     THEN HeadersSet(headers, "authorization", request.headers["authorization"])
     ELSE headers

TargetHeaders(request, apiProvider, apiConfig, clientApiKey) ==
  maskClientInfo(
    DefaultUserAgent(
      DefaultVersion(
        CopyRelevantHeaders(CredentialHeader(apiConfig, clientApiKey), request, RELEVANT_HEADERS),
        apiProvider, apiConfig)),
    apiConfig.maskHeaders)

\* The body handed on: the inbound stream for a method other than GET and HEAD.
NoBody == [kind |-> "none"]

TargetBody(request) ==
  IF request.method # "GET" /\ request.method # "HEAD" /\ request.body # NoBody
  THEN request.body ELSE NoBody

\* Mutant: '/models' is looked for before '/predict'.
VertexTransformRequest_ModelsFirst(url) ==
  LET pathParts == PathnameSplit(url.pathname)
      projectId == IF Len(pathParts) >= 4 /\ pathParts[4] # << >> THEN pathParts[4] ELSE <<"123456789">>
      location == IF Len(pathParts) >= 5 /\ pathParts[5] # << >> THEN pathParts[5] ELSE <<"us-central1">>
      predict == << <<"v1">>, <<"projects">>, projectId, <<"locations">>, location,
                    <<"publishers">>, <<"google">>, <<"models">>, <<"gemini-pro", ":", "predict">> >>
      models == << <<"v1">>, <<"projects">>, projectId, <<"locations">>, location, <<"models">> >>
  IN IF PathnameIncludes(url.pathname, "models") THEN [url EXCEPT !.pathname = models]
     ELSE IF PathnameIncludes(url.pathname, "predict") THEN [url EXCEPT !.pathname = predict]
     ELSE IF PathnameIncludes2(url.pathname, "chat", "completions")
     THEN [url EXCEPT !.pathname = predict]
     ELSE url

\* vertexai's transformRequest, as a function of the URL of the request it is given.
VertexTransformRequest(url) ==
  LET pathParts == PathnameSplit(url.pathname)
      projectId == IF Len(pathParts) >= 4 /\ pathParts[4] # << >> THEN pathParts[4] ELSE <<"123456789">>
      location == IF Len(pathParts) >= 5 /\ pathParts[5] # << >> THEN pathParts[5] ELSE <<"us-central1">>
      predict == << <<"v1">>, <<"projects">>, projectId, <<"locations">>, location,
                    <<"publishers">>, <<"google">>, <<"models">>, <<"gemini-pro", ":", "predict">> >>
      models == << <<"v1">>, <<"projects">>, projectId, <<"locations">>, location, <<"models">> >>
  IN IF PathnameIncludes(url.pathname, "predict") THEN [url EXCEPT !.pathname = predict]
     ELSE IF PathnameIncludes(url.pathname, "models") THEN [url EXCEPT !.pathname = models]
     ELSE IF PathnameIncludes2(url.pathname, "chat", "completions")
     THEN [url EXCEPT !.pathname = predict]
     ELSE url

\* Apply request transformation if needed: only path and query of the result are used.
TransformedUrl(targetUrl, apiConfig) ==
  IF apiConfig.transformRequest
  THEN LET transformed == VertexTransformRequest(targetUrl)
       IN [targetUrl EXCEPT !.pathname = transformed.pathname, !.search = transformed.search]
  ELSE targetUrl

----------------------------------------------------------------------------
\* Outbound transport.

RECURSIVE PathnameString(_)
PathnameString(pathname) ==
  IF pathname = << >> THEN << >>
  ELSE <<"/">> \o Head(pathname) \o PathnameString(Tail(pathname))

\* url.toString()
URLToString(url) ==
  <<IF url.protocol = "https:" THEN "https" ELSE "http", "://", url.hostname>>
  \o (IF url.port # "" THEN <<":", url.port>> ELSE << >>)
  \o PathnameString(url.pathname)
  \o (IF url.search # "" THEN <<url.search>> ELSE << >>)

\* Mutant: the proxy is called without the X-Target-URL header.
fetchWithProxy_NoTargetHeader(request, env) ==
  IF Truthy(env.PROXY_URL)
  THEN IF URLParses(env.PROXY_URL)
       THEN [threw |-> FALSE, error |-> NoError,
             call |-> [url |-> URLParse(env.PROXY_URL), method |-> request.method,
                       headers |-> request.headers, body |-> request.body]]
       ELSE [threw |-> TRUE, error |-> Error("TypeError", "Invalid URL"), call |-> request]
  ELSE [threw |-> FALSE, error |-> NoError,
        call |-> [url |-> request.url, method |-> request.method,
                  headers |-> request.headers, body |-> request.body]]

\* fetchWithProxy up to its call of the global fetch: the call made, or the
\* exception of new URL(env.PROXY_URL).
fetchWithProxy(request, env) ==
  IF Truthy(env.PROXY_URL)
  THEN IF URLParses(env.PROXY_URL)
       THEN [threw |-> FALSE, error |-> NoError,
             call |-> [url |-> URLParse(env.PROXY_URL), method |-> request.method,
                       headers |-> HeadersSet(request.headers, LowerName("X-Target-URL"),
                                              URLToString(request.url)),
                       body |-> request.body]]
       ELSE [threw |-> TRUE, error |-> Error("TypeError", "Invalid URL"), call |-> request]
  ELSE [threw |-> FALSE, error |-> NoError,
        call |-> [url |-> request.url, method |-> request.method,
                  headers |-> request.headers, body |-> request.body]]

----------------------------------------------------------------------------
\* The Claude-Gemini translator.

ToLowerCaseToken(t) ==
  CASE t = "Haiku" -> "haiku"
    [] t = "HAIKU" -> "haiku"
    [] t = "Sonnet" -> "sonnet"
    [] t = "Opus" -> "opus"
    [] t = "OPUS" -> "opus"
    [] t = "Gemini-" -> "gemini-"
    [] t = "Claude-" -> "claude-"
    [] OTHER -> t

\* String.prototype.toLowerCase
ToLowerCase(s) == [i \in 1..Len(s) |-> ToLowerCaseToken(s[i])]

\* String.prototype.includes(word) for a one-token word.
StringIncludes(s, word) == \E i \in 1..Len(s) : s[i] = word

\* Mutant: 'sonnet' and 'opus' are looked for before 'haiku'.
mapClaudeModelToGemini_OpusFirst(model) ==
  IF ~Truthy(model) THEN <<"gemini-", "2.5-flash">>
  ELSE IF StartsWith(model, <<"gemini-">>) THEN model
  ELSE LET m == ToLowerCase(model)
       IN IF StringIncludes(m, "sonnet") \/ StringIncludes(m, "opus")
          THEN <<"gemini-", "2.5-pro">>
          ELSE <<"gemini-", "2.5-flash">>

mapClaudeModelToGemini(model) ==
  IF ~Truthy(model) THEN <<"gemini-", "2.5-flash">>
  ELSE IF StartsWith(model, <<"gemini-">>) THEN model
  ELSE LET m == ToLowerCase(model)
       IN IF StringIncludes(m, "haiku") THEN <<"gemini-", "2.5-flash">>
          ELSE IF StringIncludes(m, "sonnet") \/ StringIncludes(m, "opus")
          THEN <<"gemini-", "2.5-pro">>
          ELSE <<"gemini-", "2.5-flash">>

\* request.headers.get('X-API-Key') || request.headers.get('Authorization')?.replace(BEARER_PREFIX, '')
GeminiApiKey(request) ==
  LET first == HeadersGet(request.headers, LowerName("X-API-Key"))
      authorization == HeadersGet(request.headers, LowerName("Authorization"))
  IN IF Truthy(first) THEN first
     ELSE IF authorization = Null THEN Undefined
     ELSE BEARER_PREFIX(authorization)

\* Mutant: only 'assistant' becomes 'model'.
GeminiContents_OnlyAssistant(messages) ==
  [i \in 1..Len(messages) |->
     [role |-> IF messages[i].role = "assistant" THEN "model" ELSE "user",
      parts |-> << [text |-> messages[i].content] >>]]

\* body.messages.map(msg => ({role: msg.role === 'user' ? 'user' : 'model', parts: [{text: msg.content}]}))
GeminiContents(messages) ==
  [i \in 1..Len(messages) |->
     [role |-> IF messages[i].role = "user" THEN "user" ELSE "model",
      parts |-> << [text |-> messages[i].content] >>]]

\* Mutant: generationConfig is written whenever the body has a max_tokens field.
GeminiRequestBody_WhenPresent(body, geminiModel) ==
  [kind |-> "geminiRequest", model |-> geminiModel, contents |-> GeminiContents(body.messages),
   hasGenerationConfig |-> body.hasMaxTokens,
   maxOutputTokens |-> IF body.hasMaxTokens THEN body.max_tokens ELSE 0]

\* body.max_tokens ? { maxOutputTokens: body.max_tokens } : undefined; a key whose
\* value is undefined is left out by JSON.stringify.
GeminiRequestBody(body, geminiModel) ==
  [kind |-> "geminiRequest", model |-> geminiModel, contents |-> GeminiContents(body.messages),
   hasGenerationConfig |-> (body.hasMaxTokens /\ body.max_tokens # 0),
   maxOutputTokens |-> IF body.hasMaxTokens /\ body.max_tokens # 0 THEN body.max_tokens ELSE 0]

GeminiUrl(geminiModel) ==
  [protocol |-> "https:", hostname |-> "generativelanguage.googleapis.com", port |-> "",
   pathname |-> << <<"v1beta">>, <<"models">>, geminiModel \o <<":", "generateContent">> >>,
   search |-> ""]

GeminiRequest(body, geminiModel, geminiApiKey) ==
  [url |-> GeminiUrl(geminiModel), method |-> "POST",
   headers |-> (LowerName("Content-Type") :> <<"application/json">>
                @@ "x-goog-api-key" :> geminiApiKey),
   body |-> GeminiRequestBody(body, geminiModel)]

\* The exception of `await request.json()` and of reading the parsed body, if any.
RequestBodyError(body) ==
  CASE body.kind \in {"none", "text"} -> Error("SyntaxError", "Unexpected end of JSON input")
    [] body.kind = "jsonNull" -> Error("TypeError", "Cannot read properties of null (reading 'model')")
    [] body.kind = "object" /\ ~body.hasMessages ->
         Error("TypeError", "Cannot read properties of undefined (reading 'map')")
    [] OTHER -> NoError

\* The exception of `await geminiResp.json()` and of reading geminiData, if any.
ResponseBodyError(body) ==
  CASE body.kind \in {"none", "text"} -> Error("SyntaxError", "Unexpected token in JSON")
    [] body.kind = "jsonNull" -> Error("TypeError", "Cannot read properties of null (reading 'candidates')")
    [] OTHER -> NoError

RECURSIVE JoinTexts(_)
JoinTexts(parts) == IF parts = << >> THEN << >> ELSE Head(parts) \o JoinTexts(Tail(parts))

\* Mutant: only the first part's text is taken.
CandidateText_FirstPart(geminiData) ==
  IF geminiData.candidates = << >> THEN << >>
  ELSE LET first == geminiData.candidates[1]
       IN IF first.hasContent /\ first.hasParts /\ first.parts # << >>
          THEN first.parts[1] ELSE << >>

\* geminiData.candidates?.[0]?.content?.parts?.map(p => p.text).join('') || ''
CandidateText(geminiData) ==
  IF geminiData.candidates = << >> THEN << >>
  ELSE LET first == geminiData.candidates[1]
       IN IF first.hasContent /\ first.hasParts THEN JoinTexts(first.parts) ELSE << >>

AnthropicResponse(geminiData, geminiModel, suffix) ==
  [status |-> 200, statusText |-> "",
   headers |-> (LowerName("Content-Type") :> <<"application/json">>
                @@ LowerName("Access-Control-Allow-Origin") :> <<"*">>),
   body |-> [kind |-> "anthropic", id |-> <<"msg_">> \o suffix, type |-> "message",
             role |-> "assistant",
             content |-> << [type |-> "text", text |-> CandidateText(geminiData)] >>,
             model |-> geminiModel, usage |-> geminiData.usage]]

----------------------------------------------------------------------------
\* Response assembly of the generic path.

\* Mutant: the provider's response transform reports every answer as a success.
TransformResponse_AlwaysOk(response, apiConfig) ==
  IF apiConfig.transformResponse THEN [response EXCEPT !.status = 200, !.statusText = "OK"]
  ELSE response

\* vertexai's transformResponse returns its argument.
TransformResponse(response, apiConfig) == response

\* Mutant: the upstream's own Access-Control-Allow-Origin is kept when it has one.
RelayedResponse_KeepOrigin(upstream, apiConfig) ==
  [status |-> upstream.status, statusText |-> upstream.statusText,
   headers |-> HeadersSet(HeadersSet(
                 IF HeadersHas(upstream.headers, LowerName("Access-Control-Allow-Origin"))
                 THEN upstream.headers
                 ELSE HeadersSet(upstream.headers, LowerName("Access-Control-Allow-Origin"), <<"*">>),
                 LowerName("Access-Control-Allow-Methods"), CorsAllowMethods),
                 LowerName("Access-Control-Allow-Headers"), CorsAllowHeaders),
   body |-> upstream.body]

RelayedResponse(upstream, apiConfig) ==
  TransformResponse(
    [status |-> upstream.status, statusText |-> upstream.statusText,
     headers |-> HeadersSet(HeadersSet(HeadersSet(upstream.headers,
                   LowerName("Access-Control-Allow-Origin"), <<"*">>),
                   LowerName("Access-Control-Allow-Methods"), CorsAllowMethods),
                   LowerName("Access-Control-Allow-Headers"), CorsAllowHeaders),
     body |-> upstream.body],
    apiConfig)

----------------------------------------------------------------------------
\* Inputs: environments, requests, upstream answers.

Env(anthropic, openai, google, groq, openrouter, proxy) ==
  [ALLOWED_ANTHROPIC_KEYS |-> anthropic, ALLOWED_OPENAI_KEYS |-> openai,
   ALLOWED_GOOGLE_KEYS |-> google, ALLOWED_GROQ_KEYS |-> groq,
   ALLOWED_OPENROUTER_KEYS |-> openrouter, PROXY_URL |-> proxy]

UniformEnv(keys, proxy) == Env(keys, keys, keys, keys, keys, proxy)

\* Whitelist strings: unset, empty, commas and blanks only, a list with blanks and
\* empty entries around the keys, a single key with a blank inside.
WhitelistStrings ==
  {Undefined, << >>, <<" ", ",", " ", ",">>, <<"k1", ",", " ", "k2", " ", ",", ",", "k3">>,
   <<"k1", " ", "k2">>}

ProxyStrings ==
  {<< >>, <<"https", "://", "proxy.example.com", ":", "8080">>, <<"proxy.example.com">>}

Envs ==
  {UniformEnv(w, Undefined) : w \in WhitelistStrings}
  \cup {UniformEnv(Undefined, p) : p \in ProxyStrings}
  \cup {Env(<<"k1">>, <<"k2">>, <<"k3">>, <<"k4">>, <<"k5">>, Undefined),
        Env(<< >>, <<"k1">>, <<"k1">>, <<"k1">>, <<"k1">>, Undefined)}

Url(protocol, hostname, port, pathname, search) ==
  [protocol |-> protocol, hostname |-> hostname, port |-> port, pathname |-> pathname,
   search |-> search]

HttpsExample(pathname) == Url("https:", "example.com", "", pathname, "")

Path1(a) == << <<a>> >>
Path2(a, b) == << <<a>>, <<b>> >>
Path3(a, b, c) == << <<a>>, <<b>>, <<c>> >>

ProviderPaths == {Path3(p[1], "v1", "messages") : p \in SupportedProviders}

TranslationPath == Path3("claude-gemini", "v1", "messages")

Pathnames ==
  ProviderPaths
  \cup {TranslationPath,
        << <<"claude-gemini">>, <<"v1">>, <<"messages", "-batch">> >>,
        Path2("claude-gemini", "v1"),
        Path3("unsupported", "v1", "test"),
        Path3("constructor", "v1", "test"),
        Path2("toString", "v1"),
        Path1("anthropic"),
        << <<"openai">>, << >> >>,
        << << >> >>,
        Path2("openrouter", "v1"),
        Path3("vertexai", "v1", "predict")}

\* Credential-bearing header sets (values as the Headers object holds them, without
\* leading or trailing whitespace).
CredentialHeaders ==
  {EmptyHeaders,
   ("x-api-key" :> <<"k1">>),
   ("x-api-key" :> <<"zz">>),
   ("x-api-key" :> <<"k3">>),
   ("x-api-key" :> <<"k4">>),
   ("authorization" :> <<"Bearer", " ", " ", "k2">>),
   ("authorization" :> <<"k1">>),
   ("authorization" :> <<"Bearer">>),
   ("x-api-key" :> << >>),
   ("x-api-key" :> <<"k5">> @@ "authorization" :> <<"Bearer", " ", "k1">>)}

TextBody == [kind |-> "text"]

ClaudeBody(model, hasMessages, messages, hasMaxTokens, max_tokens) ==
  [kind |-> "object", model |-> model, hasMessages |-> hasMessages, messages |-> messages,
   hasMaxTokens |-> hasMaxTokens, max_tokens |-> max_tokens]

HelloBody ==
  ClaudeBody(<<"claude-", "3-", "sonnet">>, TRUE,
             << [role |-> "user", content |-> <<"Hello">>] >>, TRUE, 100)

RequestBodies ==
  {TextBody, [kind |-> "jsonNull"], HelloBody,
   ClaudeBody(Undefined, FALSE, << >>, FALSE, 0),
   ClaudeBody(<<"claude-", "3-", "haiku">>, TRUE,
              << [role |-> "user", content |-> <<"Hello">>] >>, FALSE, 0),
   ClaudeBody(<<"gemini-", "1.5-pro">>, TRUE,
              << [role |-> "system", content |-> <<"Be", " ", "brief">>],
                 [role |-> "user", content |-> <<"Hello">>],
                 [role |-> "assistant", content |-> << >>] >>, TRUE, 0)}

Request(method, url, headers, body) ==
  [method |-> method, url |-> url, headers |-> headers,
   body |-> IF method \in {"GET", "HEAD", "OPTIONS"} THEN NoBody ELSE body]

\* Every provider path and the translation path with every credential header set,
\* the other paths without a credential and with one no whitelist holds, and
\* preflights.
AuthRequests ==
  {Request("POST", HttpsExample(p), c, HelloBody) :
     p \in ProviderPaths \cup {TranslationPath}, c \in CredentialHeaders}
  \cup {Request("POST", HttpsExample(p), c, HelloBody) :
     p \in Pathnames \ (ProviderPaths \cup {TranslationPath}),
     c \in {EmptyHeaders, ("x-api-key" :> <<"zz">>)}}
  \cup {Request("OPTIONS", HttpsExample(p), c, NoBody) :
     p \in {Path3("anthropic", "v1", "messages"), TranslationPath},
     c \in {EmptyHeaders, ("x-api-key" :> <<"zz">>)}}

\* Every path under each method, without a credential and with one.
RouteRequests ==
  {Request(m, HttpsExample(p), c, HelloBody) :
     m \in {"OPTIONS", "GET", "POST"}, p \in Pathnames,
     c \in {EmptyHeaders, ("x-api-key" :> <<"k1">>)}}

\* Inbound origins and query strings.
InboundOrigins ==
  {<<"http:", "localhost", "8787">>, <<"http:", "example.com", "">>,
   <<"https:", "proxy.internal", "8443">>, <<"http:", "example.com", "443">>}

\* Paths with a trailing slash and with empty segments:
\* /anthropic/v1/messages/, /groq//v1//models and /openrouter/v1/chat/completions/.
SlashPaths ==
  {<< <<"anthropic">>, <<"v1">>, <<"messages">>, << >> >>,
   << <<"groq">>, << >>, <<"v1">>, << >>, <<"models">> >>,
   << <<"openrouter">>, <<"v1">>, <<"chat">>, <<"completions">>, << >> >>}

UrlRequests ==
  {Request("POST", Url(o[1], o[2], o[3], p, ""), ("x-api-key" :> <<"k1">>), HelloBody) :
     o \in InboundOrigins, p \in ProviderPaths \cup {TranslationPath}}
  \cup {Request("GET", Url("https:", "example.com", "", p, "?alt=sse"),
                 ("x-api-key" :> <<"k1">>), NoBody) : p \in ProviderPaths}
  \cup {Request("POST", Url("https:", "example.com", "", p, "?a=1"),
                 ("x-api-key" :> <<"k1">>), HelloBody) : p \in SlashPaths}

\* Requests for vertexai whose remaining path holds the markers of the request
\* transform, alone and together, and further segments:
\* /v1/models, /v1/chat/completions, /v1/projects/p1/locations/eu/predict,
\* /v1/models/predict, /v1/chat/completions/models and /v1/chat/messages.
VertexRequests ==
  {Request("POST", Url("https:", "example.com", "", << <<"vertexai">>, <<"v1">> >> \o rest, "?alt=1"),
           ("x-api-key" :> <<"k1">>), HelloBody) :
     rest \in {<< <<"models">> >>,
               << <<"chat">>, <<"completions">> >>,
               << <<"projects">>, <<"p1">>, <<"locations">>, <<"eu">>, <<"predict">> >>,
               << <<"models">>, <<"predict">> >>,
               << <<"chat">>, <<"completions">>, <<"models">> >>,
               << <<"chat">>, <<"messages">> >>}}

\* Inbound header sets beside the credential.
ExtraHeaders ==
  {EmptyHeaders,
   ("user-agent" :> <<"MyApp/1.0">>),
   ("user-agent" :> << >>),
   ("x-forwarded-for" :> <<"203.0.113.7">> @@ "via" :> <<"1.1 edge">> @@ "cf-ray" :> <<"abc">>
      @@ "x-ssl-cipher" :> <<"TLS_AES">> @@ "cf-ipcountry" :> <<"NZ">>),
   ("anthropic-version" :> <<"2023-01-01">> @@ "content-type" :> <<"application/json">>),
   ("openai-version" :> <<"2020-10-01">> @@ "openai-organization" :> <<"org-1">>),
   ("cookie" :> <<"sid=1">> @@ "x-target-url" :> <<"http://evil">>
      @@ "x-goog-api-key" :> <<"zz">> @@ "anthropic-beta" :> << >>)}

HeaderRequests ==
  {Request(m, HttpsExample(p), ("x-api-key" :> <<"k1">>) @@ x, HelloBody) :
     m \in {"POST"}, p \in ProviderPaths \cup {TranslationPath}, x \in ExtraHeaders}

BodyRequests ==
  {Request("POST", HttpsExample(p), ("x-api-key" :> <<"k1">>), b) :
     p \in {TranslationPath, Path3("openai", "v1", "chat")}, b \in RequestBodies}

Requests ==
  AuthRequests \cup RouteRequests \cup UrlRequests \cup VertexRequests \cup HeaderRequests
  \cup BodyRequests

\* Requests through a proxy: one of each route, with and without a body.
ProxiedRequests ==
  {Request(m, HttpsExample(p), ("x-api-key" :> <<"k1">>), HelloBody) :
     m \in {"OPTIONS", "GET", "POST"},
     p \in {Path3("anthropic", "v1", "messages"), Path3("vertexai", "v1", "predict"),
            Path3("openrouter", "v1", "messages"), TranslationPath}}

\* The requests a behaviour draws from, by the environment of the deployment: a
\* deployment with whitelists gets the authentication cases, one with a proxy
\* setting the proxied ones, the one with nothing configured gets them all.
RequestsFor(e) ==
  IF e = UniformEnv(Undefined, Undefined) THEN Requests
  ELSE IF e.PROXY_URL # Undefined THEN ProxiedRequests
  ELSE AuthRequests

\* What the upstream answers: its status, headers and body.
GeminiData(candidates, usage) == [kind |-> "object", candidates |-> candidates, usage |-> usage]

Candidate(hasContent, hasParts, parts) ==
  [hasContent |-> hasContent, hasParts |-> hasParts, parts |-> parts]

UpstreamResponses ==
  {[status |-> 200, statusText |-> "OK",
    headers |-> ("content-type" :> <<"application/json">>),
    body |-> GeminiData(<< Candidate(TRUE, TRUE, << <<"Hi">>, <<" ", "there">> >>) >>, <<"usage-1">>)],
   [status |-> 200, statusText |-> "OK",
    headers |-> ("content-type" :> <<"application/json">>
                 @@ "access-control-allow-origin" :> <<"https://upstream.example">>
                 @@ "x-request-id" :> <<"req-1">>),
    body |-> GeminiData(<< >>, Undefined)],
   [status |-> 429, statusText |-> "Too Many Requests",
    headers |-> ("content-type" :> <<"application/json">>
                 @@ "access-control-allow-methods" :> <<"GET">>),
    body |-> GeminiData(<< Candidate(FALSE, FALSE, << >>) >>, Undefined)],
   [status |-> 500, statusText |-> "Internal Server Error",
    headers |-> ("content-type" :> <<"application/json">>),
    body |-> GeminiData(<< Candidate(TRUE, FALSE, << >>) >>, <<"usage-2">>)],
   [status |-> 502, statusText |-> "Bad Gateway",
    headers |-> ("content-type" :> <<"text/html">>),
    body |-> [kind |-> "text"]]}

\* What the global fetch rejects with.
FetchErrors == {Error("TypeError", "Network error")}

\* Math.random().toString(36).slice(2)
RandomSuffixes == {<<"k3x9">>, <<"0a1b">>}

----------------------------------------------------------------------------
\* State.

VARIABLES
  env,                \* the environment the host passes to every call of fetch
  API_CONFIG_CACHE,   \* provider id -> ApiConfig
  ALLOWED_KEYS_CACHE, \* cache key -> list of allowed keys
  handlers,           \* handler id -> the invocation of fetch it runs
  received            \* number of requests handed to the worker so far

vars == <<env, API_CONFIG_CACHE, ALLOWED_KEYS_CACHE, handlers, received>>

\* Invocations of fetch that can be in flight; requests are handled one at a time
\* in Spec, which uses the first only.
Handlers == {"h1", "h2"}

SequentialHandlers == {"h1"}

NoRequest == [method |-> "#none"]

\* An invocation: where it stands (pc), which branch of fetch it took (route), its
\* arguments, its locals that outlive an await, the steps it has evaluated, the
\* outbound calls it has made, and its result: the response returned, or the
\* exception that left fetch (escaped).
IdleHandler ==
  [pc |-> "idle", route |-> "none", request |-> NoRequest, env |-> UniformEnv(Undefined, Undefined),
   clientApiKey |-> Undefined, apiProvider |-> Undefined, apiConfig |-> NullConfig,
   allowedKeys |-> << >>, geminiModel |-> Undefined, steps |-> << >>, calls |-> << >>,
   response |-> NoResponse, caught |-> NoError, escaped |-> NoError]

Started(route, request, e) ==
  [IdleHandler EXCEPT !.route = route, !.request = request, !.env = e]

\* return new Response(...)
Returned(handler, response) == [handler EXCEPT !.pc = "done", !.response = response]

\* Mutant: the translator's promise is returned without await, so an exception of
\* the translator leaves fetch.
Thrown_TranslationEscapes(handler, error) ==
  IF handler.route = "translate"
  THEN [handler EXCEPT !.pc = "done", !.escaped = error]
  ELSE [handler EXCEPT !.pc = "done", !.caught = error,
                       !.response = InternalErrorResponse(handler.request, error)]

\* An exception raised inside the try block of fetch reaches its catch block.
Thrown(handler, error) ==
  [handler EXCEPT !.pc = "done", !.caught = error,
                  !.response = InternalErrorResponse(handler.request, error)]

\* The call of the global fetch; the invocation then awaits its result.
Called(handler, call) ==
  [handler EXCEPT !.pc = "awaitFetch", !.calls = Append(@, call),
                  !.steps = Append(@, "outbound")]

Init ==
  /\ env \in Envs
  /\ API_CONFIG_CACHE = [p \in {} |-> NullConfig]
  /\ ALLOWED_KEYS_CACHE = [k \in {} |-> << >>]
  /\ handlers = [h \in Handlers |-> IdleHandler]
  /\ received = 0

----------------------------------------------------------------------------
\* fetch, from its entry to its first await or its return.

\* The generic path after the whitelist check: target URL, headers, request
\* transform and the outbound call.
Forward(handler, apiProvider, apiConfig, urlPathParts) ==
  IF ~URLParses(apiConfig.baseUrl) THEN Thrown(handler, Error("TypeError", "Invalid URL"))
  ELSE LET request == handler.request
           targetUrl == TargetUrl(request, apiProvider, URLParse(apiConfig.baseUrl), urlPathParts)
           headers == TargetHeaders(request, apiProvider, apiConfig, handler.clientApiKey)
           targetRequest == [url |-> TransformedUrl(targetUrl, apiConfig),
                             method |-> request.method, headers |-> headers,
                             body |-> TargetBody(request)]
           sent == fetchWithProxy(targetRequest, handler.env)
       IN IF sent.threw THEN Thrown(handler, sent.error) ELSE Called(handler, sent.call)

\* Mutant: the path is parsed before the credential is looked for.
FetchGenericResult_PathFirst(request, e, configCache, keysCache) ==
  LET clientApiKey == ClientApiKey(request)
      urlPathParts == UrlPathParts(request.url)
      apiProvider == urlPathParts[1]
      config == getApiConfig(configCache, apiProvider)
      keys == getAllowedKeysForProvider(keysCache, apiProvider, e)
      h0 == [Started("generic", request, e) EXCEPT !.steps = <<"path">>]
      h1 == [h0 EXCEPT !.clientApiKey = clientApiKey, !.steps = Append(@, "credential")]
      h2 == [h1 EXCEPT !.apiProvider = apiProvider, !.steps = Append(@, "provider")]
      h3 == [h2 EXCEPT !.apiConfig = config.value, !.allowedKeys = keys.value,
                       !.steps = Append(@, "whitelist")]
  IN IF Len(urlPathParts) < 2
     THEN [handler |-> Returned(h0, InvalidEndpointResponse),
           configCache |-> configCache, keysCache |-> keysCache]
     ELSE IF ~Truthy(clientApiKey)
     THEN [handler |-> Returned(h1, ApiKeyRequiredResponse),
           configCache |-> configCache, keysCache |-> keysCache]
     ELSE IF config.value = NullConfig
     THEN [handler |-> Returned(h2, UnsupportedProviderResponse(apiProvider)),
           configCache |-> config.cache, keysCache |-> keysCache]
     ELSE IF Len(keys.value) > 0 /\ ~Includes(keys.value, clientApiKey)
     THEN [handler |-> Returned(h3, UnauthorizedResponse),
           configCache |-> config.cache, keysCache |-> keys.cache]
     ELSE [handler |-> Forward(h3, apiProvider, config.value, urlPathParts),
           configCache |-> config.cache, keysCache |-> keys.cache]

\* The generic path: the invocation after the synchronous part, and both caches.
FetchGenericResult(request, e, configCache, keysCache) ==
  LET clientApiKey == ClientApiKey(request)
      urlPathParts == UrlPathParts(request.url)
      apiProvider == urlPathParts[1]
      config == getApiConfig(configCache, apiProvider)
      keys == getAllowedKeysForProvider(keysCache, apiProvider, e)
      h0 == [Started("generic", request, e) EXCEPT !.steps = <<"credential">>]
      h1 == [h0 EXCEPT !.clientApiKey = clientApiKey, !.steps = Append(@, "path")]
      h2 == [h1 EXCEPT !.apiProvider = apiProvider, !.steps = Append(@, "provider")]
      h3 == [h2 EXCEPT !.apiConfig = config.value, !.allowedKeys = keys.value,
                       !.steps = Append(@, "whitelist")]
  IN IF ~Truthy(clientApiKey)
     THEN [handler |-> Returned(h0, ApiKeyRequiredResponse),
           configCache |-> configCache, keysCache |-> keysCache]
     ELSE IF Len(urlPathParts) < 2
     THEN [handler |-> Returned(h1, InvalidEndpointResponse),
           configCache |-> configCache, keysCache |-> keysCache]
     ELSE IF config.value = NullConfig
     THEN [handler |-> Returned(h2, UnsupportedProviderResponse(apiProvider)),
           configCache |-> config.cache, keysCache |-> keysCache]
     ELSE IF Len(keys.value) > 0 /\ ~Includes(keys.value, clientApiKey)
     THEN [handler |-> Returned(h3, UnauthorizedResponse),
           configCache |-> config.cache, keysCache |-> keys.cache]
     ELSE [handler |-> Forward(h3, apiProvider, config.value, urlPathParts),
           configCache |-> config.cache, keysCache |-> keys.cache]

\* Mutant: the translator checks the credential against the Anthropic whitelist.
FetchTranslationResult_AnthropicKeys(request, e, keysCache) ==
  LET geminiApiKey == GeminiApiKey(request)
      keys == getAllowedKeysForProvider(keysCache, <<"anthropic">>, e)
      h0 == [Started("translate", request, e) EXCEPT !.steps = <<"credential">>]
      h1 == [h0 EXCEPT !.clientApiKey = geminiApiKey, !.allowedKeys = keys.value,
                       !.steps = Append(@, "whitelist")]
  IN IF ~Truthy(geminiApiKey)
     THEN [handler |-> Returned(h0, TranslationApiKeyRequiredResponse), keysCache |-> keysCache]
     ELSE IF Len(keys.value) > 0 /\ ~Includes(keys.value, geminiApiKey)
     THEN [handler |-> Returned(h1, TranslationUnauthorizedResponse), keysCache |-> keys.cache]
     ELSE [handler |-> [h1 EXCEPT !.pc = "awaitRequestJson"], keysCache |-> keys.cache]

\* handleClaudeGeminiTranslation up to `await request.json()`.
FetchTranslationResult(request, e, keysCache) ==
  LET geminiApiKey == GeminiApiKey(request)
      keys == getAllowedKeysForProvider(keysCache, <<"gemini">>, e)
      h0 == [Started("translate", request, e) EXCEPT !.steps = <<"credential">>]
      h1 == [h0 EXCEPT !.clientApiKey = geminiApiKey, !.allowedKeys = keys.value,
                       !.steps = Append(@, "whitelist")]
  IN IF ~Truthy(geminiApiKey)
     THEN [handler |-> Returned(h0, TranslationApiKeyRequiredResponse), keysCache |-> keysCache]
     ELSE IF Len(keys.value) > 0 /\ ~Includes(keys.value, geminiApiKey)
     THEN [handler |-> Returned(h1, TranslationUnauthorizedResponse), keysCache |-> keys.cache]
     ELSE [handler |-> [h1 EXCEPT !.pc = "awaitRequestJson"], keysCache |-> keys.cache]

\* A request arrives at an invocation that is free.
Accepts(h) == handlers[h].pc = "idle" /\ received < MaxRequests

\* Mutant: the preflight answer is given after the credential check.
Preflight_AfterCredentialCheck(h, request) ==
  /\ Accepts(h)
  /\ request.method = "OPTIONS"
  /\ handlers' = [handlers EXCEPT ![h] =
        IF Truthy(ClientApiKey(request))
        THEN Returned(Started("preflight", request, env), PreflightResponse)
        ELSE Returned([Started("preflight", request, env) EXCEPT !.steps = <<"credential">>],
                      ApiKeyRequiredResponse)]
  /\ received' = received + 1
  /\ UNCHANGED <<env, API_CONFIG_CACHE, ALLOWED_KEYS_CACHE>>

\* Handle CORS preflight requests.
Preflight(h, request) ==
  /\ Accepts(h)
  /\ request.method = "OPTIONS"
  /\ handlers' = [handlers EXCEPT ![h] = Returned(Started("preflight", request, env), PreflightResponse)]
  /\ received' = received + 1
  /\ UNCHANGED <<env, API_CONFIG_CACHE, ALLOWED_KEYS_CACHE>>

FetchGeneric(h, request) ==
  /\ Accepts(h)
  /\ request.method # "OPTIONS"
  /\ ~IsTranslationPath(request.url)
  /\ LET result == FetchGenericResult(request, env, API_CONFIG_CACHE, ALLOWED_KEYS_CACHE)
     IN /\ handlers' = [handlers EXCEPT ![h] = result.handler]
        /\ API_CONFIG_CACHE' = result.configCache
        /\ ALLOWED_KEYS_CACHE' = result.keysCache
  /\ received' = received + 1
  /\ UNCHANGED env

FetchTranslation(h, request) ==
  /\ Accepts(h)
  /\ request.method # "OPTIONS"
  /\ IsTranslationPath(request.url)
  /\ LET result == FetchTranslationResult(request, env, ALLOWED_KEYS_CACHE)
     IN /\ handlers' = [handlers EXCEPT ![h] = result.handler]
        /\ ALLOWED_KEYS_CACHE' = result.keysCache
  /\ received' = received + 1
  /\ UNCHANGED <<env, API_CONFIG_CACHE>>

----------------------------------------------------------------------------
\* The continuations after each await.

\* `await request.json()` settles: the Gemini request is built and sent.
TranslationSendResult(handler) ==
  LET body == handler.request.body
      error == RequestBodyError(body)
      geminiModel == mapClaudeModelToGemini(body.model)
      sent == fetchWithProxy(GeminiRequest(body, geminiModel, handler.clientApiKey), handler.env)
  IN IF error # NoError THEN Thrown(handler, error)
     ELSE IF sent.threw THEN Thrown([handler EXCEPT !.geminiModel = geminiModel], sent.error)
     ELSE Called([handler EXCEPT !.geminiModel = geminiModel], sent.call)

RequestJson(h) ==
  /\ handlers[h].pc = "awaitRequestJson"
  /\ handlers' = [handlers EXCEPT ![h] = TranslationSendResult(handlers[h])]
  /\ UNCHANGED <<env, API_CONFIG_CACHE, ALLOWED_KEYS_CACHE, received>>

\* The outbound fetch resolves with the upstream response.
FetchResolveResult(handler, upstream) ==
  IF handler.route = "generic"
  THEN Returned(handler, RelayedResponse(upstream, handler.apiConfig))
  ELSE [handler EXCEPT !.pc = "awaitResponseJson", !.response = upstream]

FetchResolve(h, upstream) ==
  /\ handlers[h].pc = "awaitFetch"
  /\ handlers' = [handlers EXCEPT ![h] = FetchResolveResult(handlers[h], upstream)]
  /\ UNCHANGED <<env, API_CONFIG_CACHE, ALLOWED_KEYS_CACHE, received>>

\* Mutant: a rejected outbound call is made once more before the failure is reported.
FetchReject_Retry(h, error) ==
  /\ handlers[h].pc = "awaitFetch"
  /\ handlers' = [handlers EXCEPT ![h] =
        IF Len(handlers[h].calls) < 2 THEN Called(handlers[h], handlers[h].calls[1])
        ELSE Thrown(handlers[h], error)]
  /\ UNCHANGED <<env, API_CONFIG_CACHE, ALLOWED_KEYS_CACHE, received>>

\* The outbound fetch rejects.
FetchReject(h, error) ==
  /\ handlers[h].pc = "awaitFetch"
  /\ handlers' = [handlers EXCEPT ![h] = Thrown(handlers[h], error)]
  /\ UNCHANGED <<env, API_CONFIG_CACHE, ALLOWED_KEYS_CACHE, received>>

\* Mutant: an upstream error status is handed back as the answer's status.
ResponseJsonResult_ChecksStatus(handler, suffix) ==
  LET geminiData == handler.response.body
      error == ResponseBodyError(geminiData)
  IN IF error # NoError THEN Thrown(handler, error)
     ELSE IF handler.response.status >= 400
     THEN Returned(handler, [AnthropicResponse(geminiData, handler.geminiModel, suffix)
                               EXCEPT !.status = handler.response.status])
     ELSE Returned(handler, AnthropicResponse(geminiData, handler.geminiModel, suffix))

\* `await geminiResp.json()` settles: the Anthropic-shaped answer is built.
ResponseJsonResult(handler, suffix) ==
  LET geminiData == handler.response.body
      error == ResponseBodyError(geminiData)
  IN IF error # NoError THEN Thrown(handler, error)
     ELSE Returned(handler, AnthropicResponse(geminiData, handler.geminiModel, suffix))

ResponseJson(h, suffix) ==
  /\ handlers[h].pc = "awaitResponseJson"
  /\ handlers' = [handlers EXCEPT ![h] = ResponseJsonResult(handlers[h], suffix)]
  /\ UNCHANGED <<env, API_CONFIG_CACHE, ALLOWED_KEYS_CACHE, received>>

\* The host takes the result; the invocation is over.
Finish(h) ==
  /\ handlers[h].pc = "done"
  /\ handlers' = [handlers EXCEPT ![h] = IdleHandler]
  /\ UNCHANGED <<env, API_CONFIG_CACHE, ALLOWED_KEYS_CACHE, received>>

Next ==
  \E h \in SequentialHandlers :
    \/ \E request \in RequestsFor(env) : Preflight(h, request)
    \/ \E request \in RequestsFor(env) : FetchGeneric(h, request)
    \/ \E request \in RequestsFor(env) : FetchTranslation(h, request)
    \/ RequestJson(h)
    \/ \E upstream \in UpstreamResponses : FetchResolve(h, upstream)
    \/ \E error \in FetchErrors : FetchReject(h, error)
    \/ \E suffix \in RandomSuffixes : ResponseJson(h, suffix)
    \/ Finish(h)

Spec == Init /\ [][Next]_vars

----------------------------------------------------------------------------
\* The model mapping on its own: translation requests that name every model built
\* from a few name pieces, each mapped by the translator when its body is read.

\* Number of pieces of a model name.
MaxModelLen == 3

ModelTokens == {"claude-", "gemini-", "Gemini-", "haiku", "HAIKU", "sonnet", "Opus", "3-"}

\* body.model: absent, null, the empty string, and the names of up to MaxModelLen pieces.
ModelNames == {Undefined, Null} \cup UNION {[1..n -> ModelTokens] : n \in 0..MaxModelLen}

ModelRequest(model) ==
  Request("POST", HttpsExample(TranslationPath), ("x-api-key" :> <<"k1">>),
          ClaudeBody(model, TRUE, << [role |-> "user", content |-> <<"Hello">>] >>, FALSE, 0))

\* The worker has taken one translation request and awaits its body.
ModelInit ==
  /\ env = UniformEnv(Undefined, Undefined)
  /\ API_CONFIG_CACHE = [p \in {} |-> NullConfig]
  /\ received = 1
  /\ \E model \in ModelNames :
       LET result == FetchTranslationResult(ModelRequest(model), env, [k \in {} |-> << >>])
       IN /\ handlers = [h \in Handlers |-> IF h \in SequentialHandlers THEN result.handler
                                            ELSE IdleHandler]
          /\ ALLOWED_KEYS_CACHE = result.keysCache

ModelNext ==
  \E h \in SequentialHandlers :
    \/ RequestJson(h)
    \/ \E upstream \in UpstreamResponses : FetchResolve(h, upstream)
    \/ \E error \in FetchErrors : FetchReject(h, error)
    \/ \E suffix \in RandomSuffixes : ResponseJson(h, suffix)
    \/ Finish(h)

ModelSpec == ModelInit /\ [][ModelNext]_vars

----------------------------------------------------------------------------
\* The worker handed a different environment from one call to the next, as a host
\* does whose configuration is changed while the module stays loaded.

\* Environments whose whitelist strings differ from one another: nothing set, the
\* text 'undefined', keys with a colon inside, and two that swap the keys of two
\* providers.
DeployedEnvs ==
  {UniformEnv(Undefined, Undefined),
   UniformEnv(<<"undefined">>, Undefined),
   Env(<<"k1", ":", "k2">>, <<"k3">>, Undefined, Undefined, Undefined, Undefined),
   Env(<<"k1">>, <<"k2", ":", "k3">>, Undefined, Undefined, Undefined, Undefined),
   Env(<<"k1">>, <<"k2">>, <<"k3">>, <<"k4">>, <<"k5">>, Undefined),
   Env(<<"k2">>, <<"k1">>, <<"k3">>, <<"k4">>, <<"k5">>, Undefined)}

SharedRequests ==
  {Request("POST", HttpsExample(Path3(p, "v1", "messages")), ("x-api-key" :> c), HelloBody) :
     p \in {"anthropic", "openai", "gemini"}, c \in {<<"k1">>, <<"k2">>}}

\* The host's configuration changes: later calls of fetch get the new environment.
SetEnv(e) ==
  /\ e # env
  /\ \A h \in Handlers : handlers[h].pc = "idle"
  /\ env' = e
  /\ UNCHANGED <<API_CONFIG_CACHE, ALLOWED_KEYS_CACHE, handlers, received>>

EnvInit ==
  /\ env \in DeployedEnvs
  /\ API_CONFIG_CACHE = [p \in {} |-> NullConfig]
  /\ ALLOWED_KEYS_CACHE = [k \in {} |-> << >>]
  /\ handlers = [h \in Handlers |-> IdleHandler]
  /\ received = 0

EnvNext ==
  \/ \E e \in DeployedEnvs : SetEnv(e)
  \/ \E h \in SequentialHandlers :
       \/ \E request \in SharedRequests : FetchGeneric(h, request)
       \/ \E upstream \in UpstreamResponses : FetchResolve(h, upstream)
       \/ \E error \in FetchErrors : FetchReject(h, error)
       \/ Finish(h)

EnvSpec == EnvInit /\ [][EnvNext]_vars

----------------------------------------------------------------------------
\* Requests handled concurrently: a second invocation of fetch starts while the
\* first awaits its outbound call or a body.  The code between two awaits runs
\* without interruption, as the host runs one piece of JavaScript at a time.

ConcNext ==
  \E h \in Handlers :
    \/ \E request \in SharedRequests : FetchGeneric(h, request)
    \/ FetchTranslation(h, ModelRequest(<<"claude-", "3-", "haiku">>))
    \/ RequestJson(h)
    \/ \E upstream \in UpstreamResponses : FetchResolve(h, upstream)
    \/ \E error \in FetchErrors : FetchReject(h, error)
    \/ \E suffix \in RandomSuffixes : ResponseJson(h, suffix)
    \/ Finish(h)

ConcSpec == Init /\ [][ConcNext]_vars

----------------------------------------------------------------------------
\* Properties.

\* The invocations that have been given a request.
Running == {h \in Handlers : handlers[h].pc # "idle"}

HasCredentialHeader(request) ==
  HeadersHas(request.headers, "x-api-key") \/ HeadersHas(request.headers, "authorization")

\* A non-OPTIONS request outside the translation endpoint that carries a credential
\* and has at least two path segments.
GenericCase(x) ==
  /\ x.request.method # "OPTIONS"
  /\ ~IsTranslationPath(x.request.url)
  /\ Truthy(ClientApiKey(x.request))
  /\ Len(UrlPathParts(x.request.url)) >= 2

\* The provider configuration string holds no key at all.
OpenMode(w) == w = Undefined \/ \A k \in 1..Len(w) : w[k] \in {",", " "}

\* c is one of the comma-separated entries of w, blanks around it set aside.
ListedIn(w, c) ==
  /\ w # Undefined
  /\ c # << >>
  /\ \A k \in 1..Len(c) : c[k] # ","
  /\ c[1] # " " /\ c[Len(c)] # " "
  /\ \E a \in 1..Len(w) :
       /\ a + Len(c) - 1 <= Len(w)
       /\ SubSeq(w, a, a + Len(c) - 1) = c
       /\ \E i \in 1..a :
            /\ i = 1 \/ w[i - 1] = ","
            /\ \A k \in i..(a - 1) : w[k] = " "
       /\ \E j \in (a + Len(c) - 1)..Len(w) :
            /\ j = Len(w) \/ w[j + 1] = ","
            /\ \A k \in (a + Len(c))..j : w[k] = " "

\* The outbound transport of the environment can make a call.
TransportUsable(e) == ~Truthy(e.PROXY_URL) \/ URLParses(e.PROXY_URL)

\* C1: with a credential, two path segments and a supported provider, the request is
\* forwarded exactly when the provider's whitelist (its configuration string split
\* on commas, entries trimmed, empty entries dropped) is empty or holds the
\* credential; otherwise the answer is 403 "Unauthorized" and nothing is sent.
C1_AuthorizationDecision ==
  \A h \in Running :
    LET x == handlers[h]
        provider == UrlPathParts(x.request.url)[1]
        w == WhitelistString(provider, x.env)
        allowed == OpenMode(w) \/ ListedIn(w, ClientApiKey(x.request))
    IN (GenericCase(x) /\ provider \in SupportedProviders) =>
         /\ allowed => /\ x.response # UnauthorizedResponse
                       /\ TransportUsable(x.env) => Len(x.calls) = 1
         /\ ~allowed => /\ x.pc = "done"
                        /\ x.response = UnauthorizedResponse
                        /\ x.response.status = 403
                        /\ x.response.body.json["error"] = "Unauthorized"
                        /\ x.calls = << >>

\* A key listed with blanks around it, sent as a bearer token, is forwarded.
C1_Witness ==
  \E h \in Running :
    LET x == handlers[h]
    IN /\ GenericCase(x)
       /\ UrlPathParts(x.request.url)[1] = <<"openai">>
       /\ x.env.ALLOWED_OPENAI_KEYS = <<"k1", ",", " ", "k2", " ", ",", ",", "k3">>
       /\ ClientApiKey(x.request) = <<"k2">>
       /\ Len(x.calls) = 1

\* C2: a non-OPTIONS request with neither X-API-Key nor Authorization is answered
\* 401 "API key is required" on every path.
C2_MissingCredential ==
  \A h \in Running :
    LET x == handlers[h]
    IN (x.request.method # "OPTIONS" /\ ~HasCredentialHeader(x.request)) =>
         /\ x.pc = "done"
         /\ x.response.status = 401
         /\ x.response.body.json["error"] = "API key is required"
         /\ x.calls = << >>

\* A request without credential for a path of one segment only.
C2_Witness ==
  \E h \in Running :
    LET x == handlers[h]
    IN /\ x.request.method = "POST"
       /\ ~HasCredentialHeader(x.request)
       /\ x.request.url.pathname = Path1("anthropic")
       /\ x.response.status = 401

\* The credential header the provider table names for each provider.
DesignatedCredential(provider, credential) ==
  CASE provider = <<"anthropic">> -> ("x-api-key" :> credential)
    [] provider = <<"gemini">> -> ("x-goog-api-key" :> credential)
    [] OTHER -> ("authorization" :> (<<"Bearer", " ">> \o credential))

BaseOrigin(provider) ==
  CASE provider = <<"anthropic">> -> [protocol |-> "https:", hostname |-> "api.anthropic.com", port |-> ""]
    [] provider = <<"openai">> -> [protocol |-> "https:", hostname |-> "api.openai.com", port |-> ""]
    [] provider = <<"gemini">> -> [protocol |-> "https:", hostname |-> "generativelanguage.googleapis.com", port |-> ""]
    [] provider = <<"groq">> -> [protocol |-> "https:", hostname |-> "api.groq.com", port |-> ""]
    [] provider = <<"vertexai">> -> [protocol |-> "https:", hostname |-> "us-central1-aiplatform.googleapis.com", port |-> ""]
    [] provider = <<"openrouter">> -> [protocol |-> "https:", hostname |-> "openrouter.ai", port |-> ""]

\* C3: an authorized request for a supported provider is forwarded to a URL whose
\* origin (scheme, host, port) is the provider's base origin, whatever the inbound
\* URL, with the credential in the provider's designated header.
C3_ForwardedToBaseOrigin ==
  \A h \in Running :
    LET x == handlers[h]
        provider == UrlPathParts(x.request.url)[1]
    IN (x.route = "generic" /\ ~Truthy(x.env.PROXY_URL) /\ Len(x.calls) = 1) =>
         /\ provider \in SupportedProviders
         /\ Origin(x.calls[1].url) = BaseOrigin(provider)
         /\ \A n \in {"x-api-key", "x-goog-api-key", "authorization"} :
              LET want == DesignatedCredential(provider, ClientApiKey(x.request))
              IN IF n \in DOMAIN want
                 THEN HeadersGet(x.calls[1].headers, n) = want[n]
                 ELSE ~HeadersHas(x.calls[1].headers, n)

\* C4: every response carries Access-Control-Allow-Origin: *, whatever the upstream
\* sent under that name.
C4_AllowOriginOnEveryResponse ==
  \A h \in Running :
    LET x == handlers[h]
    IN x.pc = "done" =>
         /\ x.escaped = NoError
         /\ x.response # NoResponse
         /\ HeadersGet(x.response.headers, "access-control-allow-origin") = <<"*">>

\* A relayed response whose upstream named another origin.
C4_Witness ==
  \E h \in Running :
    LET x == handlers[h]
    IN /\ x.pc = "done"
       /\ x.route = "generic"
       /\ Len(x.calls) = 1
       /\ HeadersHas(x.response.headers, "x-request-id")
       /\ HeadersGet(x.response.headers, "access-control-allow-origin") = <<"*">>

\* C5: every response, the proxy's own error responses and the translator's
\* included, carries the three CORS headers with their fixed values.
C5_AllCorsHeadersOnEveryResponse ==
  \A h \in Running :
    LET x == handlers[h]
    IN x.pc = "done" =>
         /\ HeadersGet(x.response.headers, "access-control-allow-origin") = <<"*">>
         /\ HeadersGet(x.response.headers, "access-control-allow-methods") = CorsAllowMethods
         /\ HeadersGet(x.response.headers, "access-control-allow-headers") = CorsAllowHeaders

\* C6: no forwarded request carries a header of the masking set.
C6_MaskedHeadersAbsent ==
  \A h \in Running :
    \A i \in 1..Len(handlers[h].calls) :
      (DOMAIN handlers[h].calls[i].headers) \cap DEFAULT_MASK_HEADERS = {}

\* A forwarded request whose inbound request had masked headers, some of them
\* outside the provider's own list.
C6_Witness ==
  \E h \in Running :
    LET x == handlers[h]
    IN /\ x.route = "generic"
       /\ Len(x.calls) = 1
       /\ {"via", "cf-ray", "x-ssl-cipher", "x-forwarded-for"} \subseteq DOMAIN x.request.headers
       /\ x.apiConfig.maskHeaders = ProviderMaskHeaders

\* C7 as stated: the forwarded User-Agent is the caller's whenever the caller sent
\* the header, and the fixed string otherwise.
C7_UserAgentAsStated ==
  \A h \in Running :
    LET x == handlers[h]
    IN (x.route = "generic" /\ Len(x.calls) = 1) =>
         HeadersGet(x.calls[1].headers, "user-agent") =
           IF HeadersHas(x.request.headers, "user-agent")
           THEN x.request.headers["user-agent"]
           ELSE <<"Claude-Proxy/1.0">>

\* C7 amended: the forwarded User-Agent is the caller's when the caller sent a
\* non-empty one, and the fixed string when the caller sent none or an empty one.
C7_UserAgent ==
  \A h \in Running :
    LET x == handlers[h]
    IN (x.route = "generic" /\ Len(x.calls) = 1) =>
         HeadersGet(x.calls[1].headers, "user-agent") =
           IF HeadersHas(x.request.headers, "user-agent") /\ x.request.headers["user-agent"] # << >>
           THEN x.request.headers["user-agent"]
           ELSE <<"Claude-Proxy/1.0">>

\* A forwarded request whose caller sent its own User-Agent.
C7_Witness ==
  \E h \in Running :
    LET x == handlers[h]
    IN /\ x.route = "generic"
       /\ Len(x.calls) = 1
       /\ HeadersGet(x.request.headers, "user-agent") = <<"MyApp/1.0">>
       /\ HeadersGet(x.calls[1].headers, "user-agent") = <<"MyApp/1.0">>

\* The two caches are as they were before the step.
CachesUnchanged == UNCHANGED <<API_CONFIG_CACHE, ALLOWED_KEYS_CACHE>>

PreflightAnswered(x) ==
  /\ x.pc = "done"
  /\ x.response.status = 200
  /\ x.response.body = [kind |-> "null"]
  /\ x.response.headers =
       ("access-control-allow-origin" :> <<"*">>
        @@ "access-control-allow-methods" :> CorsAllowMethods
        @@ "access-control-allow-headers" :> CorsAllowHeaders
        @@ "access-control-max-age" :> <<"86400">>)
  /\ x.steps = << >>
  /\ x.calls = << >>

\* C8: an OPTIONS request to any path, with or without a credential, is answered 200
\* without body with the CORS headers and Access-Control-Max-Age: 86400, and no
\* credential is read, no whitelist looked up, no cache touched, no call made.
C8_Preflight ==
  /\ [](\A h \in Running : handlers[h].request.method = "OPTIONS" => PreflightAnswered(handlers[h]))
  /\ [][\A h \in Handlers :
          (handlers[h].pc = "idle" /\ handlers'[h].pc # "idle"
           /\ handlers'[h].request.method = "OPTIONS") => CachesUnchanged]_vars

\* A preflight without credential for a provider whose whitelist is not empty.
C8_Witness ==
  \E h \in Running :
    LET x == handlers[h]
    IN /\ x.request.method = "OPTIONS"
       /\ ~HasCredentialHeader(x.request)
       /\ x.env.ALLOWED_ANTHROPIC_KEYS = <<"k1">>
       /\ x.response.status = 200

\* C9: no exception leaves fetch: an exception raised on either path ends in a 500
\* response whose error is "Internal server error" and whose message is the
\* exception's, with Access-Control-Allow-Origin: *.
C9_ExceptionsBecome500 ==
  \A h \in Running :
    LET x == handlers[h]
    IN /\ x.escaped = NoError
       /\ x.caught # NoError =>
            /\ x.pc = "done"
            /\ x.response.status = 500
            /\ x.response.body.json["error"] = "Internal server error"
            /\ x.response.body.json["message"] = x.caught.message
            /\ HeadersGet(x.response.headers, "access-control-allow-origin") = <<"*">>

\* A translation request whose body is not JSON.
C9_Witness ==
  \E h \in Running :
    LET x == handlers[h]
    IN /\ x.route = "translate"
       /\ x.request.body = TextBody
       /\ x.caught.name = "SyntaxError"
       /\ x.response.status = 500

\* C10: a credentialed request of two or more segments whose first segment is not a
\* supported provider is answered 400 "Unsupported API provider"; nothing is thrown,
\* nothing is sent and the provider cache gets no entry for it.
C10_UnsupportedProvider ==
  \A h \in Running :
    LET x == handlers[h]
        provider == UrlPathParts(x.request.url)[1]
    IN (GenericCase(x) /\ provider \notin SupportedProviders) =>
         /\ x.pc = "done"
         /\ x.response = UnsupportedProviderResponse(provider)
         /\ x.response.status = 400
         /\ x.caught = NoError
         /\ x.calls = << >>
         /\ provider \notin DOMAIN API_CONFIG_CACHE

\* The three CORS header names the response assembly writes.
CorsHeaderNames ==
  {"access-control-allow-origin", "access-control-allow-methods", "access-control-allow-headers"}

\* C11: on the generic path the response returned has the status, status text and
\* body of the upstream response, and its headers with the three CORS headers set to
\* the fixed values, for every status; the provider's response transform changes
\* nothing.
C11_UpstreamRelayed ==
  [][\A h \in Handlers : \A upstream \in UpstreamResponses :
       (handlers[h].route = "generic" /\ FetchResolve(h, upstream)) =>
         LET r == handlers'[h].response
         IN /\ handlers'[h].pc = "done"
            /\ r.status = upstream.status
            /\ r.statusText = upstream.statusText
            /\ r.body = upstream.body
            /\ DOMAIN r.headers = (DOMAIN upstream.headers) \cup CorsHeaderNames
            /\ \A n \in (DOMAIN upstream.headers) \ CorsHeaderNames :
                 r.headers[n] = upstream.headers[n]
            /\ r.headers["access-control-allow-origin"] = <<"*">>
            /\ r.headers["access-control-allow-methods"] = CorsAllowMethods
            /\ r.headers["access-control-allow-headers"] = CorsAllowHeaders]_vars

\* A 502 with an HTML body relayed for vertexai, the provider with a response transform.
C11_Witness ==
  \E h \in Running :
    LET x == handlers[h]
    IN /\ x.pc = "done"
       /\ x.route = "generic"
       /\ x.apiProvider = <<"vertexai">>
       /\ x.apiConfig.transformResponse
       /\ x.response.status = 502
       /\ x.response.statusText = "Bad Gateway"
       /\ x.response.body = [kind |-> "text"]
       /\ HeadersGet(x.response.headers, "content-type") = <<"text/html">>

\* The request an invocation computes before it hands it to the transport: the
\* forwarded request of the dispatcher, the Gemini request of the translator.
ComputedRequest(x) ==
  IF x.route = "generic"
  THEN [url |-> TransformedUrl(TargetUrl(x.request, x.apiProvider, URLParse(x.apiConfig.baseUrl),
                                         UrlPathParts(x.request.url)), x.apiConfig),
        method |-> x.request.method,
        headers |-> TargetHeaders(x.request, x.apiProvider, x.apiConfig, x.clientApiKey),
        body |-> TargetBody(x.request)]
  ELSE GeminiRequest(x.request.body, x.geminiModel, x.clientApiKey)

\* C12: with a proxy configured every outbound call goes to the proxy URL, carries
\* X-Target-URL equal to the computed target URL and otherwise the method, body and
\* headers of the computed request; with none configured (unset or empty) the call
\* goes to the computed URL and carries no X-Target-URL.
C12_OutboundTransport ==
  \A h \in Running :
    LET x == handlers[h]
    IN \A i \in 1..Len(x.calls) :
         LET call == x.calls[i]
             computed == ComputedRequest(x)
         IN /\ Len(x.calls) = 1
            /\ call.method = computed.method
            /\ call.body = computed.body
            /\ IF x.env.PROXY_URL # Undefined /\ x.env.PROXY_URL # << >>
               THEN /\ call.url = URLParse(x.env.PROXY_URL)
                    /\ HeadersGet(call.headers, "x-target-url") = URLToString(computed.url)
                    /\ [n \in (DOMAIN call.headers) \ {"x-target-url"} |-> call.headers[n]]
                         = computed.headers
               ELSE /\ call.url = computed.url
                    /\ ~HeadersHas(call.headers, "x-target-url")
                    /\ call.headers = computed.headers

\* A translation request sent through the proxy.
C12_Witness ==
  \E h \in Running :
    LET x == handlers[h]
    IN /\ x.route = "translate"
       /\ x.env.PROXY_URL = <<"https", "://", "proxy.example.com", ":", "8080">>
       /\ Len(x.calls) = 1
       /\ x.calls[1].url.hostname = "proxy.example.com"
       /\ HeadersGet(x.calls[1].headers, "x-target-url") =
            <<"https", "://", "generativelanguage.googleapis.com", "/", "v1beta", "/", "models",
              "/", "gemini-", "2.5-pro", ":", "generateContent">>

\* The spellings of a word in the model names, whatever the case of its letters.
Spellings(word) == {t \in ModelTokens \cup {"haiku", "sonnet", "opus"} : ToLowerCaseToken(t) = word}

Contains(model, word) == \E i \in 1..Len(model) : model[i] \in Spellings(word)

Flash == <<"gemini-", "2.5-flash">>

Pro == <<"gemini-", "2.5-pro">>

\* An invocation of the translator that has mapped the model of its request.
Mapped(x) == x.route = "translate" /\ x.geminiModel # Undefined

\* C13: the model mapping gives gemini-2.5-flash for a missing or empty name, the name
\* itself when it starts with 'gemini-', else gemini-2.5-flash when it contains
\* 'haiku' in any case, else gemini-2.5-pro when it contains 'sonnet' or 'opus', else
\* gemini-2.5-flash; every result starts with 'gemini-' and maps to itself.
C13_ModelMapping ==
  \A h \in Running :
    LET x == handlers[h]
        model == x.request.body.model
        mapped == x.geminiModel
    IN (x.route = "translate" /\ x.pc \in {"awaitFetch", "awaitResponseJson"}) =>
         /\ Mapped(x)
         /\ mapped = IF model \in {Undefined, Null, << >>} THEN Flash
                     ELSE IF model[1] = "gemini-" THEN model
                     ELSE IF Contains(model, "haiku") THEN Flash
                     ELSE IF Contains(model, "sonnet") \/ Contains(model, "opus") THEN Pro
                     ELSE Flash
         /\ (model \notin {Undefined, Null, << >>} /\ model[1] # "gemini-"
             /\ Contains(model, "haiku") /\ Contains(model, "opus")) => mapped = Flash
         /\ mapped # << >> /\ mapped[1] = "gemini-"
         /\ mapClaudeModelToGemini(mapped) = mapped

\* A name with 'haiku' in capitals before 'opus' has been mapped to gemini-2.5-flash.
C13_Witness ==
  \E h \in Running :
    LET x == handlers[h]
    IN /\ Mapped(x)
       /\ x.request.body.model = <<"claude-", "Opus", "HAIKU">>
       /\ x.geminiModel = Flash
       /\ Len(x.calls) = 1

\* A translation request whose credential the Gemini whitelist of its environment lets
\* through.
TranslationAuthorized(x) ==
  /\ x.route = "translate"
  /\ Truthy(GeminiApiKey(x.request))
  /\ \/ OpenMode(x.env.ALLOWED_GOOGLE_KEYS)
     \/ ListedIn(x.env.ALLOWED_GOOGLE_KEYS, GeminiApiKey(x.request))

\* The URL an outbound call is addressed to: its own, or the one it names to the proxy.
AddressedTo(call) ==
  IF HeadersHas(call.headers, "x-target-url") THEN call.headers["x-target-url"]
  ELSE URLToString(call.url)

\* C14: an authorized translation request with a body {model, messages} makes exactly
\* one outbound POST, addressed to .../v1beta/models/{mapped model}:generateContent,
\* with x-goog-api-key the caller's credential and contents holding one entry per
\* message in order: role 'user' exactly for a 'user' message and 'model' for every
\* other, and one part with the message's content as text.
C14_TranslatedRequest ==
  \A h \in Running :
    LET x == handlers[h]
        body == x.request.body
    IN (/\ TranslationAuthorized(x)
        /\ x.pc # "awaitRequestJson"
        /\ body.kind = "object" /\ body.hasMessages
        /\ TransportUsable(x.env)) =>
         /\ Len(x.calls) = 1
         /\ LET call == x.calls[1]
                contents == call.body.contents
            IN /\ call.method = "POST"
               /\ AddressedTo(call) =
                    <<"https", "://", "generativelanguage.googleapis.com", "/", "v1beta", "/",
                      "models", "/">> \o mapClaudeModelToGemini(body.model)
                    \o <<":", "generateContent">>
               /\ HeadersGet(call.headers, "x-goog-api-key") = GeminiApiKey(x.request)
               /\ Len(contents) = Len(body.messages)
               /\ \A i \in 1..Len(contents) :
                    /\ contents[i].role \in {"user", "model"}
                    /\ contents[i].role = "user" <=> body.messages[i].role = "user"
                    /\ contents[i].parts = << [text |-> body.messages[i].content] >>

\* A conversation of a system, a user and an assistant message has been sent on.
C14_Witness ==
  \E h \in Running :
    LET x == handlers[h]
    IN /\ TranslationAuthorized(x)
       /\ x.request.body.kind = "object"
       /\ Len(x.request.body.messages) = 3
       /\ Len(x.calls) = 1
       /\ x.calls[1].body.contents[1].role = "model"
       /\ x.calls[1].body.contents[2].role = "user"
       /\ x.calls[1].body.contents[3] = [role |-> "model", parts |-> << [text |-> << >>] >>]

\* C15: the translator's answer is {id: 'msg_' + suffix, type: 'message', role:
\* 'assistant', content: [one text block], model: the mapped model, usage: the
\* upstream's usage or nothing}; the text is the texts of candidates[0].content.parts
\* joined in order, and empty when there is no candidate, no content or no parts.
C15_TranslatedResponse ==
  [][\A h \in Handlers : \A suffix \in RandomSuffixes :
       (ResponseJson(h, suffix) /\ handlers[h].response.body.kind = "object") =>
         LET geminiData == handlers[h].response.body
             first == geminiData.candidates[1]
             answer == handlers'[h].response
         IN /\ handlers'[h].pc = "done"
            /\ answer.body.id = <<"msg_">> \o suffix
            /\ answer.body.type = "message"
            /\ answer.body.role = "assistant"
            /\ Len(answer.body.content) = 1
            /\ answer.body.content[1].type = "text"
            /\ answer.body.content[1].text =
                 IF geminiData.candidates = << >> \/ ~first.hasContent \/ ~first.hasParts
                 THEN << >>
                 ELSE JoinTexts(first.parts)
            /\ answer.body.model = mapClaudeModelToGemini(handlers[h].request.body.model)
            /\ answer.body.usage = geminiData.usage]_vars

\* An answer whose text joins two parts and whose usage is the upstream's.
C15_Witness ==
  \E h \in Running :
    LET x == handlers[h]
    IN /\ x.route = "translate"
       /\ x.pc = "done"
       /\ x.caught = NoError
       /\ x.response.body.kind = "anthropic"
       /\ x.response.body.id = <<"msg_", "k3x9">>
       /\ x.response.body.content = << [type |-> "text", text |-> <<"Hi", " ", "there">>] >>
       /\ x.response.body.model = Pro
       /\ x.response.body.usage = <<"usage-1">>

\* The path of the URL begins with /claude-gemini/v1/messages.
BeginsWithTranslationPrefix(url) ==
  StartsWith(PathnameString(url.pathname),
             <<"/", "claude-gemini", "/", "v1", "/", "messages">>)

\* C16: a non-OPTIONS request whose path begins with /claude-gemini/v1/messages, of
\* any method and with any suffix, goes to the translator and is checked against
\* ALLOWED_GOOGLE_KEYS alone: 401 without a credential, 403 when that list holds keys
\* and not the credential, translation otherwise, whatever the other whitelists hold.
C16_TranslationAuthorization ==
  \A h \in Running :
    LET x == handlers[h]
        credential == GeminiApiKey(x.request)
        w == x.env.ALLOWED_GOOGLE_KEYS
    IN (x.request.method # "OPTIONS" /\ BeginsWithTranslationPrefix(x.request.url)) =>
         /\ x.route = "translate"
         /\ \A i \in 1..Len(x.steps) : x.steps[i] \notin {"path", "provider"}
         /\ IF ~Truthy(credential)
            THEN /\ x.pc = "done"
                 /\ x.response.status = 401
                 /\ x.calls = << >>
            ELSE IF ~OpenMode(w) /\ ~ListedIn(w, credential)
            THEN /\ x.pc = "done"
                 /\ x.response.status = 403
                 /\ x.calls = << >>
            ELSE /\ x.response.status \notin {401, 403}
                 /\ x.pc = "done" => (Len(x.calls) = 1 \/ x.caught # NoError)

\* A key of the Google list alone is translated, and a key of the Anthropic list alone
\* would not be: the environment gives every provider its own key.
C16_Witness ==
  \E h \in Running :
    LET x == handlers[h]
    IN /\ BeginsWithTranslationPrefix(x.request.url)
       /\ x.env.ALLOWED_GOOGLE_KEYS = <<"k3">>
       /\ x.env.ALLOWED_ANTHROPIC_KEYS = <<"k1">>
       /\ GeminiApiKey(x.request) = <<"k3">>
       /\ x.request.body.model = <<"claude-", "3-", "sonnet">>
       /\ Len(x.calls) = 1

ForwardedDirectly(x) ==
  x.route = "generic" /\ Len(x.calls) = 1 /\ ~HeadersHas(x.calls[1].headers, "x-target-url")

\* The segments of a path after its first n, or the root path when none is left.
Remainder(segments, n) ==
  IF Len(segments) > n THEN SubSeq(segments, n + 1, Len(segments)) ELSE << << >> >>

\* C18 as stated: the forwarded path is the inbound path without its first segment,
\* the rest verbatim with trailing slash and empty segments, and for openrouter the
\* inbound path without its first two segments under /api/v1/; the query string is
\* the inbound one.
C18_PathRemappingAsStated ==
  \A h \in Running :
    LET x == handlers[h]
        inbound == x.request.url
    IN ForwardedDirectly(x) =>
         /\ x.calls[1].url.search = inbound.search
         /\ x.calls[1].url.pathname =
              IF x.apiProvider = <<"openrouter">>
              THEN << <<"api">>, <<"v1">> >> \o Remainder(inbound.pathname, 2)
              ELSE Remainder(inbound.pathname, 1)

\* The path of a URL is one the vertexai request transform rewrites.
VertexRewrites(pathname) ==
  \/ PathnameIncludes(pathname, "predict")
  \/ PathnameIncludes(pathname, "models")
  \/ PathnameIncludes2(pathname, "chat", "completions")

\* C18 amended: the forwarded path is made of the non-empty inbound segments only
\* (empty segments and a trailing slash are dropped): without the first of them, and
\* for openrouter without the first two and under /api/v1/; for vertexai the request
\* transform may then replace that path; the query string is the inbound one.
C18_PathRemapping ==
  \A h \in Running :
    LET x == handlers[h]
        inbound == x.request.url
        segments == SelectSeq(inbound.pathname, LAMBDA segment : segment # << >>)
        remapped == IF x.apiProvider = <<"openrouter">>
                    THEN << <<"api">>, <<"v1">> >> \o Remainder(segments, 2)
                    ELSE Remainder(segments, 1)
    IN ForwardedDirectly(x) =>
         /\ x.calls[1].url.search = inbound.search
         /\ (x.apiProvider # <<"vertexai">> \/ ~VertexRewrites(remapped)) =>
              x.calls[1].url.pathname = remapped

\* /groq//v1//models?a=1 has been forwarded as /v1/models?a=1.
C18_Witness ==
  \E h \in Running :
    LET x == handlers[h]
    IN /\ ForwardedDirectly(x)
       /\ x.request.url.pathname = << <<"groq">>, << >>, <<"v1">>, << >>, <<"models">> >>
       /\ x.calls[1].url.pathname = << <<"v1">>, <<"models">> >>
       /\ x.calls[1].url.search = "?a=1"

\* C19: a request forwarded to anthropic carries anthropic-version and one forwarded
\* to openai carries openai-version: the caller's value when the caller sent that
\* header, the provider's default ('2023-06-01', '2024-01-01') otherwise.
C19_VersionHeader ==
  \A h \in Running :
    LET x == handlers[h]
        name == IF x.apiProvider = <<"anthropic">> THEN "anthropic-version" ELSE "openai-version"
        default == IF x.apiProvider = <<"anthropic">> THEN <<"2023-06-01">> ELSE <<"2024-01-01">>
    IN (/\ x.route = "generic"
        /\ Len(x.calls) = 1
        /\ x.apiProvider \in {<<"anthropic">>, <<"openai">>}) =>
         /\ HeadersHas(x.calls[1].headers, name)
         /\ HeadersGet(x.calls[1].headers, name) =
              IF HeadersHas(x.request.headers, name) THEN x.request.headers[name] ELSE default

\* The whitelist variables of the environment.
WhitelistNames ==
  {"ALLOWED_ANTHROPIC_KEYS", "ALLOWED_OPENAI_KEYS", "ALLOWED_GOOGLE_KEYS", "ALLOWED_GROQ_KEYS",
   "ALLOWED_OPENROUTER_KEYS"}

\* The whitelist variable each endpoint is said to use.
WhitelistOf(endpoint) ==
  CASE endpoint = <<"anthropic">> -> "ALLOWED_ANTHROPIC_KEYS"
    [] endpoint = <<"openai">> -> "ALLOWED_OPENAI_KEYS"
    [] endpoint \in {<<"gemini">>, <<"vertexai">>, <<"claude-gemini">>} -> "ALLOWED_GOOGLE_KEYS"
    [] endpoint = <<"groq">> -> "ALLOWED_GROQ_KEYS"
    [] endpoint = <<"openrouter">> -> "ALLOWED_OPENROUTER_KEYS"

\* A request that reaches a whitelist check: a translation request with a credential,
\* or a generic one with a credential for a supported provider.
ReachesWhitelist(x) ==
  \/ x.route = "translate" /\ Truthy(GeminiApiKey(x.request))
  \/ x.route = "generic" /\ GenericCase(x) /\ UrlPathParts(x.request.url)[1] \in SupportedProviders

\* C20: in an environment whose five whitelists all hold keys, a credential found in
\* one whitelist only is answered 403 by every endpoint that uses another whitelist
\* and is let through by those that use that one: gemini, vertexai and the
\* translation endpoint use ALLOWED_GOOGLE_KEYS, the four others each their own.
C20_ProviderIsolation ==
  \A h \in Running :
    LET x == handlers[h]
        endpoint == UrlPathParts(x.request.url)[1]
        credential == IF x.route = "translate" THEN GeminiApiKey(x.request)
                      ELSE ClientApiKey(x.request)
    IN (ReachesWhitelist(x) /\ \A n \in WhitelistNames : ~OpenMode(x.env[n])) =>
         \A a \in WhitelistNames :
           (ListedIn(x.env[a], credential)
            /\ \A b \in WhitelistNames \ {a} : ~ListedIn(x.env[b], credential)) =>
             IF WhitelistOf(endpoint) = a
             THEN x.response.status # 403
             ELSE /\ x.pc = "done"
                  /\ x.response.status = 403
                  /\ x.calls = << >>

\* The key of the Groq list alone has been refused by openrouter.
C20_Witness ==
  \E h \in Running :
    LET x == handlers[h]
    IN /\ ReachesWhitelist(x)
       /\ \A n \in WhitelistNames : ~OpenMode(x.env[n])
       /\ x.env.ALLOWED_GROQ_KEYS = <<"k4">>
       /\ x.env.ALLOWED_OPENROUTER_KEYS = <<"k5">>
       /\ ClientApiKey(x.request) = <<"k4">>
       /\ UrlPathParts(x.request.url)[1] = <<"openrouter">>
       /\ x.response.status = 403

\* C21: the credential is the X-API-Key value when the caller sent one, otherwise the
\* token after 'Bearer ' of Authorization; X-API-Key wins when both are sent; a request
\* whose only credential header is an Authorization that is not 'Bearer <token>' has
\* no credential and is answered 401.
C21_CredentialExtraction ==
  \A h \in Running :
    LET x == handlers[h]
        key == HeadersGet(x.request.headers, "x-api-key")
        authorization == HeadersGet(x.request.headers, "authorization")
        bearer == /\ authorization # Null
                  /\ Len(authorization) >= 3
                  /\ authorization[1] = "Bearer"
                  /\ authorization[2] = " "
                  /\ authorization[Len(authorization)] # " "
        token == SelectSeq(authorization, LAMBDA t : t \notin {"Bearer", " "})
    IN x.request.method # "OPTIONS" =>
         IF key # Null /\ key # << >>
         THEN x.response.status # 401 /\ x.clientApiKey = key
         ELSE IF bearer
         THEN x.response.status # 401 /\ x.clientApiKey = token
         ELSE /\ x.pc = "done"
              /\ x.response.status = 401
              /\ x.calls = << >>

\* C22: every response the proxy makes itself (no upstream answer relayed or
\* translated: missing credential, invalid endpoint, unsupported provider, whitelist
\* rejection, internal failure) has a status among 400, 401, 403 and 500 and a JSON
\* body whose keys are error and message, possibly details, and no other.
C22_ErrorEnvelope ==
  \A h \in Running :
    LET x == handlers[h]
    IN (/\ x.pc = "done"
        /\ x.request.method # "OPTIONS"
        /\ x.calls = << >> \/ x.caught # NoError) =>
         /\ x.response.status \in {400, 401, 403, 500}
         /\ x.response.body.kind = "json"
         /\ {"error", "message"} \subseteq DOMAIN x.response.body.json
         /\ DOMAIN x.response.body.json \subseteq {"error", "message", "details"}

\* C23 as stated: whenever the inbound body has a max_tokens field, 0 included, the
\* Gemini body has generationConfig.maxOutputTokens equal to it; when the field is
\* absent the Gemini body has no generationConfig.
C23_GenerationConfigAsStated ==
  \A h \in Running :
    LET x == handlers[h]
    IN (x.route = "translate" /\ Len(x.calls) = 1) =>
         IF x.request.body.hasMaxTokens
         THEN /\ x.calls[1].body.hasGenerationConfig
              /\ x.calls[1].body.maxOutputTokens = x.request.body.max_tokens
         ELSE ~x.calls[1].body.hasGenerationConfig

\* C23 amended: the Gemini body has generationConfig.maxOutputTokens equal to max_tokens
\* when the inbound body has a max_tokens other than 0, and no generationConfig when
\* max_tokens is absent or 0.
C23_GenerationConfig ==
  \A h \in Running :
    LET x == handlers[h]
    IN (x.route = "translate" /\ Len(x.calls) = 1) =>
         IF x.request.body.hasMaxTokens /\ x.request.body.max_tokens # 0
         THEN /\ x.calls[1].body.hasGenerationConfig
              /\ x.calls[1].body.maxOutputTokens = x.request.body.max_tokens
         ELSE ~x.calls[1].body.hasGenerationConfig

\* A body with max_tokens 0 has been sent on without generationConfig.
C23_Witness ==
  \E h \in Running :
    LET x == handlers[h]
    IN /\ x.route = "translate"
       /\ Len(x.calls) = 1
       /\ x.request.body.hasMaxTokens
       /\ x.request.body.max_tokens = 0
       /\ ~x.calls[1].body.hasGenerationConfig

\* C24 as stated: for vertexai the path left after the provider prefix becomes
\* /v1/projects/{p}/locations/{l}/publishers/google/models/gemini-pro:predict when it
\* contains '/predict' or '/chat/completions' and /v1/projects/{p}/locations/{l}/models
\* when it contains '/models', '/predict' before '/models' before '/chat/completions',
\* with p and l the project and location embedded in the path (the segments after
\* 'projects' and 'locations') and the placeholders when it embeds none; a path
\* without marker is forwarded as it is; scheme, host and query are not changed and
\* no other provider's URL is transformed.
C24_VertexTransformAsStated ==
  \A h \in Running :
    LET x == handlers[h]
        inbound == x.request.url
        segments == SelectSeq(inbound.pathname, LAMBDA segment : segment # << >>)
        rest == Remainder(segments, 1)
        After(word, placeholder) ==
          IF \E i \in 1..(Len(rest) - 1) : rest[i] = <<word>>
          THEN rest[(CHOOSE i \in 1..(Len(rest) - 1) : rest[i] = <<word>>) + 1]
          ELSE placeholder
        p == After("projects", <<"123456789">>)
        l == After("locations", <<"us-central1">>)
        Marker(word) == \E i \in 1..Len(rest) : StartsWith(rest[i], <<word>>)
        chat == \E i \in 1..(Len(rest) - 1) :
                  rest[i] = <<"chat">> /\ StartsWith(rest[i + 1], <<"completions">>)
        predict == << <<"v1">>, <<"projects">>, p, <<"locations">>, l, <<"publishers">>,
                      <<"google">>, <<"models">>, <<"gemini-pro", ":", "predict">> >>
        models == << <<"v1">>, <<"projects">>, p, <<"locations">>, l, <<"models">> >>
    IN ForwardedDirectly(x) =>
         /\ x.calls[1].url.search = inbound.search
         /\ x.calls[1].url.protocol = "https:"
         /\ x.calls[1].url.hostname = BaseOrigin(x.apiProvider).hostname
         /\ x.apiProvider = <<"vertexai">> =>
              x.calls[1].url.pathname =
                IF Marker("predict") THEN predict
                ELSE IF Marker("models") THEN models
                ELSE IF chat THEN predict
                ELSE rest
         /\ x.apiProvider \notin {<<"vertexai">>, <<"openrouter">>} =>
              x.calls[1].url.pathname = rest

\* C24 amended: as stated, except that p is the third segment of the remaining path
\* and l its fourth, whatever they are, and the placeholders '123456789' and
\* 'us-central1' when the path has no such segment.
C24_VertexTransform ==
  \A h \in Running :
    LET x == handlers[h]
        inbound == x.request.url
        segments == SelectSeq(inbound.pathname, LAMBDA segment : segment # << >>)
        rest == Remainder(segments, 1)
        p == IF Len(rest) >= 3 THEN rest[3] ELSE <<"123456789">>
        l == IF Len(rest) >= 4 THEN rest[4] ELSE <<"us-central1">>
        Marker(word) == \E i \in 1..Len(rest) : StartsWith(rest[i], <<word>>)
        chat == \E i \in 1..(Len(rest) - 1) :
                  rest[i] = <<"chat">> /\ StartsWith(rest[i + 1], <<"completions">>)
        predict == << <<"v1">>, <<"projects">>, p, <<"locations">>, l, <<"publishers">>,
                      <<"google">>, <<"models">>, <<"gemini-pro", ":", "predict">> >>
        models == << <<"v1">>, <<"projects">>, p, <<"locations">>, l, <<"models">> >>
    IN ForwardedDirectly(x) =>
         /\ x.calls[1].url.search = inbound.search
         /\ x.calls[1].url.protocol = "https:"
         /\ x.calls[1].url.hostname = BaseOrigin(x.apiProvider).hostname
         /\ x.apiProvider = <<"vertexai">> =>
              x.calls[1].url.pathname =
                IF Marker("predict") THEN predict
                ELSE IF Marker("models") THEN models
                ELSE IF chat THEN predict
                ELSE rest
         /\ x.apiProvider \notin {<<"vertexai">>, <<"openrouter">>} =>
              x.calls[1].url.pathname = rest

\* /vertexai/v1/models/predict?alt=1 has been forwarded to the predict path with the
\* project 'predict' and the placeholder location.
C24_Witness ==
  \E h \in Running :
    LET x == handlers[h]
    IN /\ ForwardedDirectly(x)
       /\ x.request.url.pathname = << <<"vertexai">>, <<"v1">>, <<"models">>, <<"predict">> >>
       /\ x.calls[1].url.search = "?alt=1"
       /\ x.calls[1].url.pathname =
            << <<"v1">>, <<"projects">>, <<"predict">>, <<"locations">>, <<"us-central1">>,
               <<"publishers">>, <<"google">>, <<"models">>, <<"gemini-pro", ":", "predict">> >>

\* C25: whatever requests were handled before and under whatever environments, the
\* whitelist a request is checked against is its provider's own configuration string
\* of the environment of that request, split on commas, trimmed, without empty
\* entries; and no two different inputs (provider, five whitelist strings) have the
\* same cache key.
C25_WhitelistResolverPure ==
  /\ \A h \in Running :
       LET x == handlers[h]
       IN (x.route = "generic" /\ \E i \in 1..Len(x.steps) : x.steps[i] = "whitelist") =>
            x.allowedKeys = ParseAllowedKeys(WhitelistString(x.apiProvider, x.env))
  /\ \A p1 \in SupportedProviders, p2 \in SupportedProviders :
       \A e1 \in DeployedEnvs, e2 \in DeployedEnvs :
         (/\ AllowedKeysCacheKey(p1, e1) \in DOMAIN ALLOWED_KEYS_CACHE
          /\ AllowedKeysCacheKey(p1, e1) = AllowedKeysCacheKey(p2, e2)) =>
           /\ p1 = p2
           /\ \A n \in WhitelistNames : e1[n] = e2[n]

\* C26: a non-OPTIONS request outside the translation endpoint is answered by the
\* first check it fails, in the order credential (401), two path segments (400
\* 'Invalid API endpoint', also when the one segment is a supported provider),
\* provider (400 'Unsupported API provider'), whitelist (403), whatever later checks
\* it would fail too; the checks are evaluated in that order and none after the one
\* that failed.  (A first segment that names a property inherited from
\* Object.prototype is the case of C10.)
C26_CheckPrecedence ==
  \A h \in Running :
    LET x == handlers[h]
        order == <<"credential", "path", "provider", "whitelist", "outbound">>
        segments == SelectSeq(x.request.url.pathname, LAMBDA segment : segment # << >>)
        credential == ClientApiKey(x.request)
        w == WhitelistString(segments[1], x.env)
        Answered(response, evaluated) ==
          /\ x.pc = "done"
          /\ x.response = response
          /\ x.steps = SubSeq(order, 1, evaluated)
          /\ x.calls = << >>
    IN (x.request.method # "OPTIONS" /\ ~IsTranslationPath(x.request.url)) =>
         /\ Len(x.steps) <= Len(order)
         /\ x.steps = SubSeq(order, 1, Len(x.steps))
         /\ IF ~Truthy(credential) THEN Answered(ApiKeyRequiredResponse, 1)
            ELSE IF Len(segments) < 2 THEN Answered(InvalidEndpointResponse, 2)
            ELSE IF segments[1] \notin SupportedProviders
            THEN /\ x.response.status \notin {401, 403}
                 /\ x.response # InvalidEndpointResponse
                 /\ segments[1] \notin ObjectPrototypeKeys =>
                      Answered(UnsupportedProviderResponse(segments[1]), 3)
            ELSE IF ~OpenMode(w) /\ ~ListedIn(w, credential)
            THEN Answered(UnauthorizedResponse, 4)
            ELSE x.response.status \notin {400, 401, 403}

\* /anthropic alone, with a credential the Anthropic whitelist does not hold, has
\* been answered 400 'Invalid API endpoint'.
C26_Witness ==
  \E h \in Running :
    LET x == handlers[h]
    IN /\ x.request.method = "POST"
       /\ x.request.url.pathname = Path1("anthropic")
       /\ ClientApiKey(x.request) = <<"zz">>
       /\ x.env.ALLOWED_ANTHROPIC_KEYS = <<"k1">>
       /\ x.response = InvalidEndpointResponse
       /\ x.steps = <<"credential", "path">>

\* C27: the headers of a forwarded generic request, the proxy's X-Target-URL aside,
\* are among the provider's credential header and content-type, anthropic-version,
\* anthropic-beta, openai-version, openai-organization, openai-beta, user-agent and
\* x-goog-user-project; each of these eight that the caller sent with a non-empty
\* value is forwarded with that value; every other inbound header is absent, and the
\* credential header holds the credential, not an inbound value of that name.
C27_HeaderAllowList ==
  \A h \in Running :
    LET x == handlers[h]
        inbound == x.request.headers
        allowed == {"content-type", "anthropic-version", "anthropic-beta", "openai-version",
                    "openai-organization", "openai-beta", "user-agent", "x-goog-user-project"}
        credential == DesignatedCredential(x.apiProvider, ClientApiKey(x.request))
    IN (x.route = "generic" /\ Len(x.calls) = 1) =>
         LET sent == IF Truthy(x.env.PROXY_URL)
                     THEN [n \in (DOMAIN x.calls[1].headers) \ {"x-target-url"} |->
                             x.calls[1].headers[n]]
                     ELSE x.calls[1].headers
         IN /\ DOMAIN sent \subseteq (DOMAIN credential) \cup allowed
            /\ \A n \in DOMAIN credential : n \in DOMAIN sent /\ sent[n] = credential[n]
            /\ \A n \in allowed \cap DOMAIN inbound :
                 inbound[n] # << >> => (n \in DOMAIN sent /\ sent[n] = inbound[n])
            /\ \A n \in (DOMAIN inbound) \ (allowed \cup DOMAIN credential) : n \notin DOMAIN sent

\* A request with Cookie, X-Target-URL and x-goog-api-key headers of its own has
\* been forwarded to openai without them and without its X-API-Key.
C27_Witness ==
  \E h \in Running :
    LET x == handlers[h]
    IN /\ x.route = "generic"
       /\ x.apiProvider = <<"openai">>
       /\ {"cookie", "x-target-url", "x-goog-api-key", "x-api-key"} \subseteq DOMAIN x.request.headers
       /\ Len(x.calls) = 1
       /\ DOMAIN x.calls[1].headers = {"authorization", "openai-version", "user-agent"}

\* C28: with requests handled concurrently under one environment, each request gets
\* the provider descriptor, the whitelist and the authentication outcome (401, 403
\* or let through) it gets when handled alone from empty caches; and no step removes
\* an entry of the provider cache or of the whitelist cache or changes its value.
C28_ConcurrentCacheSafety ==
  /\ [](\A h \in Running :
          LET x == handlers[h]
              alone == IF x.route = "generic"
                       THEN FetchGenericResult(x.request, x.env, [p \in {} |-> NullConfig],
                                               [k \in {} |-> << >>]).handler
                       ELSE FetchTranslationResult(x.request, x.env, [k \in {} |-> << >>]).handler
          IN x.route \in {"generic", "translate"} =>
               /\ x.clientApiKey = alone.clientApiKey
               /\ x.apiProvider = alone.apiProvider
               /\ x.apiConfig = alone.apiConfig
               /\ x.allowedKeys = alone.allowedKeys
               /\ Len(x.steps) >= Len(alone.steps)
               /\ SubSeq(x.steps, 1, Len(alone.steps)) = alone.steps
               /\ \A status \in {401, 403} :
                    x.response.status = status <=> alone.response.status = status
               /\ alone.pc = "done" => x = alone)
  /\ [][/\ \A p \in DOMAIN API_CONFIG_CACHE :
             p \in DOMAIN API_CONFIG_CACHE' /\ API_CONFIG_CACHE'[p] = API_CONFIG_CACHE[p]
        /\ \A k \in DOMAIN ALLOWED_KEYS_CACHE :
             k \in DOMAIN ALLOWED_KEYS_CACHE' /\ ALLOWED_KEYS_CACHE'[k] = ALLOWED_KEYS_CACHE[k]]_vars

\* Two requests await their outbound calls at once, each let through by its own
\* provider's whitelist, and the caches hold the entries of both.
C28_Witness ==
  /\ handlers["h1"].pc = "awaitFetch"
  /\ handlers["h2"].pc = "awaitFetch"
  /\ handlers["h1"].apiProvider = <<"anthropic">>
  /\ handlers["h2"].apiProvider = <<"openai">>
  /\ handlers["h1"].allowedKeys = << <<"k1">> >>
  /\ handlers["h2"].allowedKeys = << <<"k2">> >>
  /\ DOMAIN API_CONFIG_CACHE = {<<"anthropic">>, <<"openai">>}
  /\ Cardinality(DOMAIN ALLOWED_KEYS_CACHE) = 2

\* C29: a request makes at most one outbound call; it makes none when it is answered
\* by the preflight or by a 401, 400 or 403 of the proxy's own; a generic request
\* makes its call only after the credential, path, provider and whitelist checks have
\* passed, in that order, and a translation request only after the credential check
\* and the check against the Gemini whitelist have passed.
C29_OutboundGated ==
  \A h \in Running :
    LET x == handlers[h]
        segments == SelectSeq(x.request.url.pathname, LAMBDA segment : segment # << >>)
        Passes(w, credential) ==
          /\ credential \notin {Undefined, Null, << >>}
          /\ OpenMode(w) \/ ListedIn(w, credential)
    IN /\ Len(x.calls) <= 1
       /\ x.request.method = "OPTIONS" => x.calls = << >>
       /\ (x.pc = "done" /\ x.response.body.kind = "json" /\ x.response.status \in {400, 401, 403}) =>
            x.calls = << >>
       /\ (x.calls # << >> /\ x.route = "generic") =>
            /\ Len(segments) >= 2
            /\ segments[1] \in SupportedProviders
            /\ Passes(WhitelistString(segments[1], x.env), ClientApiKey(x.request))
            /\ x.steps = <<"credential", "path", "provider", "whitelist", "outbound">>
       /\ (x.calls # << >> /\ x.route # "generic") =>
            /\ x.route = "translate"
            /\ Passes(x.env.ALLOWED_GOOGLE_KEYS, GeminiApiKey(x.request))
            /\ x.steps = <<"credential", "whitelist", "outbound">>

\* A request whose outbound call was rejected has been answered 500 after that one call.
C29_Witness ==
  \E h \in Running :
    LET x == handlers[h]
    IN /\ x.pc = "done"
       /\ x.caught = Error("TypeError", "Network error")
       /\ x.response.status = 500
       /\ Len(x.calls) = 1
       /\ x.env.ALLOWED_OPENAI_KEYS = <<"k1", ",", " ", "k2", " ", ",", ",", "k3">>

\* C30: in every outbound call, of the dispatcher and of the translator, the
\* provider's credential header holds the credential that was tested against the
\* whitelist ('Bearer ' before it when the header is Authorization); the call has no
\* other credential header and no header with the value of an inbound X-API-Key,
\* Authorization or x-goog-api-key header that was not the credential.
C30_CredentialCheckedIsUsed ==
  \A h \in Running :
    LET x == handlers[h]
        inbound == x.request.headers
        names == {"x-api-key", "authorization", "x-goog-api-key"}
        tested == x.clientApiKey
        designated == IF x.route = "translate" THEN "x-goog-api-key"
                      ELSE IF x.apiConfig.apiKeyHeader = "Authorization" THEN "authorization"
                      ELSE x.apiConfig.apiKeyHeader
    IN \A i \in 1..Len(x.calls) :
         LET sent == x.calls[i].headers
         IN /\ tested \notin {Undefined, Null, << >>}
            /\ x.allowedKeys = << >> \/ \E k \in 1..Len(x.allowedKeys) : x.allowedKeys[k] = tested
            /\ designated \in DOMAIN sent
            /\ sent[designated] = IF designated = "authorization"
                                  THEN <<"Bearer", " ">> \o tested ELSE tested
            /\ \A n \in names \ {designated} : n \notin DOMAIN sent
            /\ \A n \in (DOMAIN sent) \ {designated} :
                 \A m \in names \cap DOMAIN inbound : sent[n] # inbound[m]

\* A request with X-API-Key k5 and Authorization 'Bearer k1' has been forwarded to
\* openrouter, whose whitelist holds k5 alone, with Authorization 'Bearer k5'.
C30_Witness ==
  \E h \in Running :
    LET x == handlers[h]
    IN /\ x.apiProvider = <<"openrouter">>
       /\ x.env.ALLOWED_OPENROUTER_KEYS = <<"k5">>
       /\ HeadersGet(x.request.headers, "x-api-key") = <<"k5">>
       /\ HeadersGet(x.request.headers, "authorization") = <<"Bearer", " ", "k1">>
       /\ Len(x.calls) = 1
       /\ x.calls[1].headers["authorization"] = <<"Bearer", " ", "k5">>

====
